---------------------------- MODULE Spec2Model ----------------------------
(***************************************************************************)
(* A model of the large-object subsystem of schwift (largeobject.go): the  *)
(* LargeObject view, its writer, segment naming, AddSegment validation and *)
(* manifest rendering/parsing, together with the object store the view     *)
(* talks to.                                                               *)
(*                                                                         *)
(* Strings are sequences of one-character strings.  64-bit unsigned        *)
(* numbers are exact: a number is its canonical decimal digit sequence     *)
(* (no leading zeros, <<0>> for zero), so strconv.ParseUint and            *)
(* strconv.FormatUint and the wrap-around of uint64 arithmetic are         *)
(* modelled digit by digit.                                                *)
(***************************************************************************)
EXTENDS Integers, Sequences, FiniteSets, TLC

VARIABLES lo, ohdr, w, srv, last, crashed, hist, rs, ops, bw

\* the handles of an account, a container and an object, and their resources
VARIABLES cache, remote

\* one call of Do on the backend
VARIABLES net

cacheVars == <<cache, remote>>

\* one call of UploadWithWriter: the caller, the goroutine and their pipe
VARIABLES pipe

\* what the large-object operations never touch
otherVars == <<cacheVars, net, pipe>>

vars == <<lo, ohdr, w, srv, last, crashed, hist, rs, ops, bw, otherVars>>

----------------------------------------------------------------------------
(* Strings and decimal numbers                                             *)

DigitChars == <<"0", "1", "2", "3", "4", "5", "6", "7", "8", "9">>

IsDigit(c) == \E i \in 1..10 : DigitChars[i] = c

DigitVal(c) == (CHOOSE i \in 1..10 : DigitChars[i] = c) - 1

DigitChar(d) == DigitChars[d + 1]

\* byte order of the characters the model uses (their ASCII codes)
CharCode(c) ==
    IF IsDigit(c) THEN 48 + DigitVal(c)
    ELSE CASE c = "\n" -> 10
           [] c = "-" -> 45
           [] c = "/" -> 47
           [] c = "l" -> 108
           [] c = "o" -> 111
           [] c = "s" -> 115
           [] c = "x" -> 120
           [] OTHER   -> 122

HasPrefix(s, p) == Len(p) <= Len(s) /\ SubSeq(s, 1, Len(p)) = p

TrimPrefix(s, p) == IF HasPrefix(s, p) THEN SubSeq(s, Len(p) + 1, Len(s)) ELSE s

\* position of the first occurrence of character c in s, 0 if there is none
IndexOf(s, c) ==
    IF \E i \in 1..Len(s) : s[i] = c
    THEN CHOOSE i \in 1..Len(s) : s[i] = c /\ \A j \in 1..(i - 1) : s[j] # c
    ELSE 0

\* strings.SplitN(s, c, 2)
SplitN2(s, c) ==
    LET i == IndexOf(s, c)
    IN  IF i = 0 THEN <<s>>
        ELSE <<SubSeq(s, 1, i - 1), SubSeq(s, i + 1, Len(s))>>

\* byte-wise comparison of two strings
RECURSIVE StrLess(_, _)
StrLess(a, b) ==
    IF b = <<>> THEN FALSE
    ELSE IF a = <<>> THEN TRUE
    ELSE IF CharCode(a[1]) # CharCode(b[1]) THEN CharCode(a[1]) < CharCode(b[1])
    ELSE StrLess(Tail(a), Tail(b))

\* ---- decimal numbers: canonical digit sequences -------------------------

RECURSIVE StripZeros(_)
StripZeros(d) ==
    IF Len(d) > 1 /\ d[1] = 0 THEN StripZeros(Tail(d)) ELSE d

DecZero == <<0>>

DecOne == <<1>>

\* 2^64 - 1 and 2^63 - 1
MaxUint64 == <<1,8,4,4,6,7,4,4,0,7,3,7,0,9,5,5,1,6,1,5>>

MaxInt64 == <<9,2,2,3,3,7,2,0,3,6,8,5,4,7,7,5,8,0,7>>

RECURSIVE DigitsLess(_, _)
DigitsLess(a, b) ==
    IF a = <<>> THEN FALSE
    ELSE IF a[1] # b[1] THEN a[1] < b[1]
    ELSE DigitsLess(Tail(a), Tail(b))

DecLess(a, b) ==
    IF Len(a) # Len(b) THEN Len(a) < Len(b) ELSE DigitsLess(a, b)

DecLeq(a, b) == a = b \/ DecLess(a, b)

PadLeft(d, n) == [i \in 1..(IF n > Len(d) THEN n - Len(d) ELSE 0) |-> 0] \o d

\* a + b over the naturals
RECURSIVE AddDigits(_, _, _)
AddDigits(a, b, carry) ==
    IF a = <<>>
    THEN IF carry = 0 THEN <<>> ELSE <<carry>>
    ELSE LET s == a[Len(a)] + b[Len(b)] + carry
         IN  AddDigits(SubSeq(a, 1, Len(a) - 1), SubSeq(b, 1, Len(b) - 1), s \div 10)
               \o <<s % 10>>

NatAdd(a, b) ==
    LET n == IF Len(a) > Len(b) THEN Len(a) ELSE Len(b)
    IN  StripZeros(AddDigits(PadLeft(a, n), PadLeft(b, n), 0))

\* a - b over the naturals, for b <= a
RECURSIVE SubDigits(_, _, _)
SubDigits(a, b, borrow) ==
    IF a = <<>> THEN <<>>
    ELSE LET s == a[Len(a)] - b[Len(b)] - borrow
         IN  SubDigits(SubSeq(a, 1, Len(a) - 1), SubSeq(b, 1, Len(b) - 1),
                       IF s < 0 THEN 1 ELSE 0)
               \o <<IF s < 0 THEN s + 10 ELSE s>>

NatSub(a, b) == StripZeros(SubDigits(a, PadLeft(b, Len(a)), 0))

\* uint64 arithmetic: results are taken modulo 2^64
Two64 == NatAdd(MaxUint64, DecOne)

U64Add(a, b) ==
    LET s == NatAdd(a, b)
    IN  IF DecLess(MaxUint64, s) THEN NatSub(s, Two64) ELSE s

U64Sub(a, b) ==
    IF DecLeq(b, a) THEN NatSub(a, b) ELSE NatSub(NatAdd(a, Two64), b)

\* the decimal number of a small natural of the model
RECURSIVE Dec(_)
Dec(n) == IF n < 10 THEN <<n>> ELSE Dec(n \div 10) \o <<n % 10>>

\* the small natural of a decimal number known to be small
RECURSIVE DecToNat(_)
DecToNat(d) ==
    IF d = <<>> THEN 0 ELSE 10 * DecToNat(SubSeq(d, 1, Len(d) - 1)) + d[Len(d)]

\* strconv.FormatUint(x, 10)
FormatUint(x) == [i \in 1..Len(x) |-> DigitChar(x[i])]

\* strconv.ParseUint(s, 10, bits) for bits = 64 (max = MaxUint64) or 63
ParseUint(s, max) ==
    IF s = <<>> \/ \E i \in 1..Len(s) : ~IsDigit(s[i])
    THEN [ok |-> FALSE, val |-> DecZero]
    ELSE LET v == StripZeros([i \in 1..Len(s) |-> DigitVal(s[i])])
         IN  IF DecLess(max, v) THEN [ok |-> FALSE, val |-> DecZero]
             ELSE [ok |-> TRUE, val |-> v]

----------------------------------------------------------------------------
(* Accounts, containers, objects, segments                                 *)

NilContainer == [isnil |-> TRUE, a |-> "", name |-> <<>>]

\* Account.Container(name)
Container(a, n) == [isnil |-> FALSE, a |-> a, name |-> n]

NilObject == [isnil |-> TRUE, c |-> NilContainer, name |-> <<>>]

\* Container.Object(name); the receiver may be the nil container
Object(c, n) == [isnil |-> FALSE, c |-> c, name |-> n]

\* Object.FullName()
FullName(o) == o.c.name \o <<"/">> \o o.name

\* Account.isEqualTo: same endpoint and account name
AccountIsEqualTo(a, b) == a = b

\* Container.isEqualTo: same name in the same account
ContainerIsEqualTo(c, d) == c.name = d.name /\ AccountIsEqualTo(c.a, d.a)

\* int64 values: a sign and a magnitude
Int64(neg, abs) == [neg |-> neg, abs |-> abs]

Int64Zero == Int64(FALSE, DecZero)

IsNegative(i) == i.neg

\* the zero value of SegmentInfo
SegmentZero ==
    [Object |-> NilObject, SizeBytes |-> 0, Etag |-> <<>>,
     RangeLength |-> DecZero, RangeOffset |-> Int64Zero, Data |-> <<>>]

\* hex.EncodeToString(md5.Sum(buf)): an injective tag of the content
Md5Hex(buf) == <<"#">> \o buf

\* base64.StdEncoding: the empty buffer encodes to the empty string
Base64Encode(d) == IF d = <<>> THEN <<>> ELSE <<"=">> \o d

Base64Decode(s) ==
    IF s = <<>> THEN [ok |-> TRUE, data |-> <<>>]
    ELSE IF s[1] = "=" THEN [ok |-> TRUE, data |-> Tail(s)]
    ELSE [ok |-> FALSE, data |-> <<>>]

----------------------------------------------------------------------------
(* parseHTTPRange, and the range rendering of writeSLOManifest             *)

parseHTTPRange(str) ==
    LET fields == SplitN2(str, "-")
        bad    == [offsetVal |-> Int64Zero, lengthVal |-> DecZero, ok |-> FALSE]
    IN  IF Len(fields) # 2 THEN bad
        ELSE IF fields[1] = <<>>
        THEN IF fields[2] = <<>>
             THEN [offsetVal |-> Int64Zero, lengthVal |-> DecZero, ok |-> TRUE]
             ELSE LET numBytes == ParseUint(fields[2], MaxUint64)
                  IN  IF ~numBytes.ok THEN bad
                      ELSE [offsetVal |-> Int64(TRUE, DecOne),
                            lengthVal |-> numBytes.val, ok |-> TRUE]
        ELSE LET firstByte == ParseUint(fields[1], MaxInt64)
             IN  IF ~firstByte.ok THEN bad
                 ELSE IF fields[2] = <<>>
                 THEN [offsetVal |-> Int64(FALSE, firstByte.val),
                       lengthVal |-> DecZero, ok |-> TRUE]
                 ELSE LET lastByte == ParseUint(fields[2], MaxUint64)
                      IN  IF ~lastByte.ok \/ DecLess(lastByte.val, firstByte.val)
                          THEN bad
                          ELSE [offsetVal |-> Int64(FALSE, firstByte.val),
                                lengthVal |->
                                    U64Add(U64Sub(lastByte.val, firstByte.val), DecOne),
                                ok |-> TRUE]

\* si.Range as writeSLOManifest sets it for an object-backed segment
RenderRange(s) ==
    IF IsNegative(s.RangeOffset)
    THEN <<"-">> \o FormatUint(s.RangeLength)
    ELSE LET firstByteStr == FormatUint(s.RangeOffset.abs)
             lastByteStr  ==
                 FormatUint(U64Sub(U64Add(s.RangeOffset.abs, s.RangeLength), DecOne))
         IN  firstByteStr \o <<"-">> \o lastByteStr

\* the zero value of sloSegmentInfo; a zero field is omitted from the JSON
SloZero ==
    [Path |-> <<>>, SizeBytes |-> 0, Etag |-> <<>>, Range |-> <<>>, DataBase64 |-> <<>>]

\* one record of the manifest that writeSLOManifest marshals
RenderSegment(s) ==
    IF Len(s.Data) > 0
    THEN [SloZero EXCEPT !.DataBase64 = Base64Encode(s.Data)]
    ELSE [SloZero EXCEPT !.Path = <<"/">> \o FullName(s.Object),
                         !.SizeBytes = s.SizeBytes,
                         !.Etag = s.Etag,
                         !.Range = RenderRange(s)]

RenderManifest(segs) == [i \in 1..Len(segs) |-> RenderSegment(segs[i])]

----------------------------------------------------------------------------
(* Segment naming                                                          *)

initialIndex ==
    <<"0","0","0","0","0","0","0","0","0","0","0","0","0","0","0","1">>

\* length of the longest run of digits that ends the name
RECURSIVE TrailingDigits(_)
TrailingDigits(s) ==
    IF s = <<>> \/ ~IsDigit(s[Len(s)]) THEN 0
    ELSE 1 + TrailingDigits(SubSeq(s, 1, Len(s) - 1))

\* nextSegmentName without the overflow branch: the index wraps around
nextSegmentNameWrapping(segmentName) ==
    LET n == TrailingDigits(segmentName)
    IN  IF n = 0 \/ \E i \in 1..(Len(segmentName) - n) : segmentName[i] = "\n"
        THEN segmentName \o initialIndex
        ELSE LET base   == SubSeq(segmentName, 1, Len(segmentName) - n)
                 idxStr == SubSeq(segmentName, Len(segmentName) - n + 1, Len(segmentName))
                 idx    == ParseUint(idxStr, MaxUint64)
             IN  IF ~idx.ok
                 THEN segmentName \o <<"-">> \o initialIndex
                 ELSE base \o FormatUint(PadLeft(U64Add(idx.val, DecOne), Len(idxStr)))

\* splitSegmentIndexRx is ^(.*?)([0-9]+$): the dot matches no line feed, so a
\* name with a line feed before its digits does not match
nextSegmentName(segmentName) ==
    LET n == TrailingDigits(segmentName)
    IN  IF n = 0 \/ \E i \in 1..(Len(segmentName) - n) : segmentName[i] = "\n"
        THEN segmentName \o initialIndex
        ELSE LET base   == SubSeq(segmentName, 1, Len(segmentName) - n)
                 idxStr == SubSeq(segmentName, Len(segmentName) - n + 1, Len(segmentName))
                 idx    == ParseUint(idxStr, MaxUint64)
             IN  IF ~idx.ok \/ idx.val = MaxUint64
                 THEN segmentName \o <<"-">> \o initialIndex
                 ELSE base \o FormatUint(PadLeft(U64Add(idx.val, DecOne), Len(idxStr)))

\* whether segment s counts for NextSegmentObject
Qualifies(l, s) ==
    /\ ~s.Object.isnil
    /\ ContainerIsEqualTo(l.SegmentContainer, s.Object.c)
    /\ HasPrefix(s.Object.name, l.SegmentPrefix)

\* the loop of NextSegmentObject: the name of the last qualifying segment
RECURSIVE PrevSegmentName(_, _)
PrevSegmentName(l, segs) ==
    IF segs = <<>> THEN <<>>
    ELSE IF Qualifies(l, segs[Len(segs)]) THEN segs[Len(segs)].Object.name
    ELSE PrevSegmentName(l, SubSeq(segs, 1, Len(segs) - 1))

\* NextSegmentObject panics when it compares the unset container
NextSegmentPanics(l) ==
    l.SegmentContainer.isnil /\ \E i \in 1..Len(l.segments) : ~l.segments[i].Object.isnil

NextSegmentObject(l) ==
    LET prevSegmentName == PrevSegmentName(l, l.segments)
        segmentName == IF prevSegmentName = <<>>
                       THEN l.SegmentPrefix \o initialIndex
                       ELSE nextSegmentName(prevSegmentName)
    IN  Object(l.SegmentContainer, segmentName)

\* LargeObject.segmentObjects: each FullName once, data segments skipped
segmentObjects(segs) ==
    LET first(i) == /\ ~segs[i].Object.isnil
                    /\ \A j \in 1..(i - 1) :
                          segs[j].Object.isnil \/ FullName(segs[j].Object) # FullName(segs[i].Object)
        RECURSIVE Pick(_)
        Pick(i) == IF i > Len(segs) THEN <<>>
                   ELSE (IF first(i) THEN <<segs[i].Object>> ELSE <<>>) \o Pick(i + 1)
    IN  Pick(1)

----------------------------------------------------------------------------
(* AddSegment                                                              *)

StaticLargeObject == "slo"

DynamicLargeObject == "dlo"

\* AddSegment without the prefix check of the dynamic strategy
AddSegmentErrorAnyPrefix(l, segment) ==
    IF Len(segment.Data) = 0
    THEN LET o == segment.Object
         IN  IF o.isnil THEN "ErrSegmentInvalid"
             ELSE IF l.SegmentContainer.isnil THEN "panic"
             ELSE IF ~AccountIsEqualTo(o.c.a, l.SegmentContainer.a) THEN "ErrAccountMismatch"
             ELSE IF l.Strategy = DynamicLargeObject
             THEN IF segment.RangeLength # DecZero \/ segment.RangeOffset # Int64Zero
                  THEN "ErrSegmentInvalid"
                  ELSE IF ~ContainerIsEqualTo(o.c, l.SegmentContainer)
                  THEN "ErrContainerMismatch"
                  ELSE "nil"
             ELSE IF segment.RangeLength = DecZero /\ IsNegative(segment.RangeOffset)
                  THEN "ErrSegmentInvalid"
                  ELSE "nil"
    ELSE IF l.Strategy # StaticLargeObject \/ [segment EXCEPT !.Data = <<>>] # SegmentZero
         THEN "ErrSegmentInvalid"
         ELSE "nil"

\* the value AddSegment returns ("nil" for success, "panic" for a nil dereference)
AddSegmentError(l, segment) ==
    IF Len(segment.Data) = 0
    THEN LET o == segment.Object
         IN  IF o.isnil THEN "ErrSegmentInvalid"
             ELSE IF l.SegmentContainer.isnil THEN "panic"
             ELSE IF ~AccountIsEqualTo(o.c.a, l.SegmentContainer.a) THEN "ErrAccountMismatch"
             ELSE IF l.Strategy = DynamicLargeObject
             THEN IF segment.RangeLength # DecZero \/ segment.RangeOffset # Int64Zero
                  THEN "ErrSegmentInvalid"
                  ELSE IF ~ContainerIsEqualTo(o.c, l.SegmentContainer)
                  THEN "ErrContainerMismatch"
                  ELSE IF ~HasPrefix(o.name, l.SegmentPrefix)
                  THEN "ErrContainerMismatch"
                  ELSE "nil"
             ELSE IF segment.RangeLength = DecZero /\ IsNegative(segment.RangeOffset)
                  THEN "ErrSegmentInvalid"
                  ELSE "nil"
    ELSE IF l.Strategy # StaticLargeObject THEN "ErrSegmentInvalid"
         ELSE IF \/ ~segment.Object.isnil
                 \/ segment.SizeBytes # 0
                 \/ segment.Etag # <<>>
                 \/ segment.RangeLength # DecZero
                 \/ segment.RangeOffset # Int64Zero
         THEN "ErrSegmentInvalid"
         ELSE "nil"

\* lo.segments after AddSegment(segment)
AddSegmentSegments(l, segment) ==
    IF AddSegmentError(l, segment) = "nil"
    THEN Append(l.segments, segment)
    ELSE l.segments

----------------------------------------------------------------------------
(* The object store.  srv maps the key <<account, container, object>> of   *)
(* every stored object to its entry; a large object is stored as its       *)
(* manifest.                                                               *)

Key(o) == <<o.c.a, o.c.name, o.name>>

Exists(s, k) == k \in DOMAIN s

Store(s, k, e) == [x \in (DOMAIN s) \cup {k} |-> IF x = k THEN e ELSE s[x]]

Remove(s, ks) == [x \in (DOMAIN s) \ ks |-> s[x]]

NoKey == <<"", <<>>, <<>>>>

PlainEntry(body) == [kind |-> "plain", body |-> body, man |-> <<>>, ptr |-> <<>>]

SloEntry(man) == [kind |-> "slo", body |-> <<>>, man |-> man, ptr |-> <<>>]

DloEntry(ptr) == [kind |-> "dlo", body |-> <<>>, man |-> <<>>, ptr |-> ptr]

\* the decimal number d cut down to at most n
Clamp(d, n) == IF DecLess(d, Dec(n)) THEN DecToNat(d) ELSE n

\* digits of a number of any size, as the server reads them
ParseNat(str) ==
    IF str = <<>> \/ \E i \in 1..Len(str) : ~IsDigit(str[i])
    THEN [ok |-> FALSE, val |-> DecZero]
    ELSE [ok |-> TRUE, val |-> StripZeros([i \in 1..Len(str) |-> DigitVal(str[i])])]

\* The bytes (positions from..to, counted from 1) that an HTTP byte range
\* selects from an object of n bytes; not ok when the range is malformed or
\* selects nothing.
ServerRange(str, n) ==
    LET fields == SplitN2(str, "-")
        bad    == [ok |-> FALSE, from |-> 1, to |-> 0]
    IN  IF Len(fields) # 2 THEN bad
        ELSE IF fields[1] = <<>>
        THEN LET suffix == ParseNat(fields[2])
             IN  IF ~suffix.ok \/ suffix.val = DecZero \/ n = 0 THEN bad
                 ELSE [ok |-> TRUE, from |-> n - Clamp(suffix.val, n) + 1, to |-> n]
        ELSE LET first == ParseNat(fields[1])
             IN  IF ~first.ok \/ ~DecLess(first.val, Dec(n)) THEN bad
                 ELSE IF fields[2] = <<>>
                 THEN [ok |-> TRUE, from |-> DecToNat(first.val) + 1, to |-> n]
                 ELSE LET lastb == ParseNat(fields[2])
                      IN  IF ~lastb.ok \/ DecLess(lastb.val, first.val) THEN bad
                          ELSE [ok |-> TRUE, from |-> DecToNat(first.val) + 1,
                                to |-> Clamp(lastb.val, n - 1) + 1]

\* what the server keeps of one manifest record
StoredZero ==
    [data |-> <<>>, key |-> NoKey, etag |-> <<>>, size |-> 0,
     range |-> <<>>, from |-> 1, to |-> 0]

\* the key a manifest path /container/object names in account a
PathKey(a, path) ==
    LET f == SplitN2(TrimPrefix(path, <<"/">>), "/")
    IN  IF Len(f) # 2 \/ f[1] = <<>> \/ f[2] = <<>> THEN NoKey ELSE <<a, f[1], f[2]>>

\* the server's check of one record of a manifest that is PUT in account a
ServerAccepts(s, a, e) ==
    IF e.DataBase64 # <<>>
    THEN e.Path = <<>> /\ e.Etag = <<>> /\ e.SizeBytes = 0 /\ e.Range = <<>>
         /\ Base64Decode(e.DataBase64).ok
    ELSE LET k == PathKey(a, e.Path)
         IN  /\ k # NoKey
             /\ Exists(s, k)
             /\ s[k].kind = "plain"
             /\ e.Etag \in {<<>>, Md5Hex(s[k].body)}
             /\ e.SizeBytes \in {0, Len(s[k].body)}
             /\ e.Range = <<>> \/ ServerRange(e.Range, Len(s[k].body)).ok

ServerStores(s, a, e) ==
    IF e.DataBase64 # <<>>
    THEN [StoredZero EXCEPT !.data = Base64Decode(e.DataBase64).data]
    ELSE LET k == PathKey(a, e.Path)
             n == Len(s[k].body)
             r == ServerRange(e.Range, n)
         IN  [StoredZero EXCEPT !.key = k, !.etag = Md5Hex(s[k].body), !.size = n,
                                !.range = e.Range,
                                !.from = IF e.Range = <<>> THEN 1 ELSE r.from,
                                !.to = IF e.Range = <<>> THEN n ELSE r.to]

ManifestAccepted(s, a, man) == \A i \in 1..Len(man) : ServerAccepts(s, a, man[i])

\* the record the server returns for multipart-manifest=get&format=raw
RawRecord(st) ==
    IF st.data # <<>>
    THEN [SloZero EXCEPT !.DataBase64 = Base64Encode(st.data)]
    ELSE [SloZero EXCEPT !.Path = <<"/">> \o st.key[2] \o <<"/">> \o st.key[3],
                         !.Etag = st.etag,
                         !.SizeBytes = st.size,
                         !.Range = st.range]

\* the names stored in container <<a, c>> that start with prefix, in byte order
RECURSIVE SortNames(_)
SortNames(ns) ==
    IF ns = {} THEN <<>>
    ELSE LET m == CHOOSE x \in ns : \A y \in ns \ {x} : StrLess(x, y)
         IN  <<m>> \o SortNames(ns \ {m})

Listing(s, a, c, prefix) ==
    SortNames({k[3] : k \in {x \in DOMAIN s : x[1] = a /\ x[2] = c /\ HasPrefix(x[3], prefix)}})

RECURSIVE Concat(_)
Concat(seqs) == IF seqs = <<>> THEN <<>> ELSE seqs[1] \o Concat(Tail(seqs))

\* the body a GET of key k returns ([ok |-> FALSE] when the GET fails)
Content(s, k) ==
    IF ~Exists(s, k) THEN [ok |-> FALSE, body |-> <<>>]
    ELSE LET e == s[k]
         IN  CASE e.kind = "plain" -> [ok |-> TRUE, body |-> e.body]
               [] e.kind = "slo" ->
                    LET good(st) == \/ st.data # <<>>
                                    \/ /\ Exists(s, st.key)
                                       /\ s[st.key].kind = "plain"
                                       /\ Md5Hex(s[st.key].body) = st.etag
                        part(st) == IF st.data # <<>> THEN st.data
                                    ELSE SubSeq(s[st.key].body, st.from, st.to)
                    IN  IF \A i \in 1..Len(e.man) : good(e.man[i])
                        THEN [ok |-> TRUE,
                              body |-> Concat([i \in 1..Len(e.man) |-> part(e.man[i])])]
                        ELSE [ok |-> FALSE, body |-> <<>>]
               [] OTHER ->
                    LET f  == SplitN2(e.ptr, "/")
                        ns == IF Len(f) = 2 THEN Listing(s, k[1], f[1], f[2]) ELSE <<>>
                    IN  [ok |-> TRUE,
                         body |-> Concat([i \in 1..Len(ns) |-> s[<<k[1], f[1], ns[i]>>].body])]

\* the headers a HEAD of key k returns
HeadOf(s, k) ==
    [cached |-> TRUE,
     manifest |-> IF s[k].kind = "dlo" THEN s[k].ptr ELSE <<>>,
     static |-> s[k].kind = "slo"]

NoHeaders == [cached |-> FALSE, manifest |-> <<>>, static |-> FALSE]

----------------------------------------------------------------------------
(* AsLargeObject                                                           *)

NoView ==
    [Object |-> NilObject, SegmentContainer |-> NilContainer, SegmentPrefix |-> <<>>,
     Strategy |-> StaticLargeObject, segments |-> <<>>]

\* a new view that starts out with the dynamic strategy
FreshViewDynamic(o) == [NoView EXCEPT !.Object = o, !.Strategy = DynamicLargeObject]

\* &LargeObject{Object: o, Strategy: StaticLargeObject}
FreshView(o) == [NoView EXCEPT !.Object = o]

\* path.Clean for paths without "." and ".." elements
RECURSIVE CleanFrom(_, _)
CleanFrom(p, out) ==
    IF p = <<>> THEN out
    ELSE IF p[1] = "/"
         THEN IF out # <<>> /\ out[Len(out)] = "/"
              THEN CleanFrom(Tail(p), out)
              ELSE CleanFrom(Tail(p), out \o <<"/">>)
         ELSE CleanFrom(Tail(p), out \o <<p[1]>>)

PathClean(p) ==
    LET c == CleanFrom(p, <<>>)
        d == IF Len(c) > 1 /\ c[Len(c)] = "/" THEN SubSeq(c, 1, Len(c) - 1) ELSE c
    IN  IF d = <<>> THEN <<".">> ELSE d

\* path.Dir
PathDir(p) ==
    LET slashes == {i \in 1..Len(p) : p[i] = "/"}
        i == IF slashes = {} THEN 0 ELSE CHOOSE x \in slashes : \A y \in slashes : y <= x
    IN  PathClean(SubSeq(p, 1, i))

\* longestcommon.Prefix
LongestCommonPrefix(names) ==
    IF names = <<>> THEN <<>>
    ELSE LET common(n) == \A i \in 1..Len(names) :
                              Len(names[i]) >= n /\ SubSeq(names[i], 1, n) = SubSeq(names[1], 1, n)
             n == CHOOSE x \in 0..Len(names[1]) :
                      common(x) /\ \A y \in (x + 1)..Len(names[1]) : ~common(y)
         IN  SubSeq(names[1], 1, n)

\* the segment asSLO builds from one manifest record of the object in account a
ParseRecord(a, info) ==
    IF info.DataBase64 # <<>>
    THEN LET d == Base64Decode(info.DataBase64)
         IN  [ok |-> d.ok, seg |-> [SegmentZero EXCEPT !.Data = d.data]]
    ELSE LET pathElements == SplitN2(TrimPrefix(info.Path, <<"/">>), "/")
             r == parseHTTPRange(info.Range)
         IN  IF Len(pathElements) # 2 THEN [ok |-> FALSE, seg |-> SegmentZero]
             ELSE IF info.Range # <<>> /\ ~r.ok THEN [ok |-> FALSE, seg |-> SegmentZero]
             ELSE [ok |-> TRUE,
                   seg |-> [SegmentZero EXCEPT
                              !.Object = Object(Container(a, pathElements[1]), pathElements[2]),
                              !.SizeBytes = info.SizeBytes,
                              !.Etag = info.Etag,
                              !.RangeOffset = IF info.Range # <<>> THEN r.offsetVal ELSE Int64Zero,
                              !.RangeLength = IF info.Range # <<>> THEN r.lengthVal ELSE DecZero]]

\* the container names that may win the vote of asSLO: the map is walked in
\* any order and the first name with the largest count stays
VoteWinners(segs) ==
    LET objs == {i \in 1..Len(segs) : ~segs[i].Object.isnil}
        votes(n) == Cardinality({i \in objs : segs[i].Object.c.name = n})
        names == {segs[i].Object.c.name : i \in objs}
    IN  IF names = {} THEN {<<>>}
        ELSE {n \in names : \A m \in names : votes(m) <= votes(n)}

\* the names of the segments in the container called maxName, in order
RECURSIVE NamesIn(_, _)
NamesIn(segs, maxName) ==
    IF segs = <<>> THEN <<>>
    ELSE (IF ~segs[1].Object.isnil /\ segs[1].Object.c.name = maxName
          THEN <<segs[1].Object.name>> ELSE <<>>) \o NamesIn(Tail(segs), maxName)

GuessPrefix(names) ==
    LET p == LongestCommonPrefix(names)
    IN  IF \E i \in 1..Len(p) : p[i] = "/" THEN PathDir(p) \o <<"/">> ELSE p

\* asSLO on manifest data with the vote won by maxName
asSLO(o, data, maxName) ==
    IF Len(data) = 0 THEN [ok |-> TRUE, view |-> FreshView(o)]
    ELSE LET parsed == [i \in 1..Len(data) |-> ParseRecord(o.c.a, data[i])]
             segs   == [i \in 1..Len(data) |-> parsed[i].seg]
         IN  IF \E i \in 1..Len(data) : ~parsed[i].ok
             THEN [ok |-> FALSE, view |-> NoView]
             ELSE [ok |-> TRUE,
                   view |-> [Object |-> o,
                             SegmentContainer |-> Container(o.c.a, maxName),
                             SegmentPrefix |-> GuessPrefix(NamesIn(segs, maxName)),
                             Strategy |-> StaticLargeObject,
                             segments |-> segs]]

\* asDLO on the value of X-Object-Manifest
asDLO(o, manifestStr, s) ==
    LET manifest == SplitN2(manifestStr, "/")
    IN  IF Len(manifest) < 2 THEN [ok |-> FALSE, view |-> NoView]
        ELSE LET c  == Container(o.c.a, manifest[1])
                 ns == Listing(s, o.c.a, manifest[1], manifest[2])
             IN  [ok |-> TRUE,
                  view |-> [Object |-> o,
                            SegmentContainer |-> c,
                            SegmentPrefix |-> manifest[2],
                            Strategy |-> DynamicLargeObject,
                            segments |->
                                [i \in 1..Len(ns) |->
                                    [SegmentZero EXCEPT
                                       !.Object = Object(c, ns[i]),
                                       !.SizeBytes = Len(s[<<o.c.a, manifest[1], ns[i]>>].body),
                                       !.Etag = Md5Hex(s[<<o.c.a, manifest[1], ns[i]>>].body)]]]]

----------------------------------------------------------------------------
(* The state machine: one large-object view of the object Target, the      *)
(* writer Open returned for it, and the object store.                      *)

MaxSegs == 2

A1 == "a1"

A2 == "a2"

Target == Object(Container(A1, <<"t">>), <<"l", "o">>)

CSeg == Container(A1, <<"c">>)

CForeign == Container(A2, <<"c">>)

PSlash == <<"s", "/">>

PNines == <<"9", "9", "9", "9">>

ContainerChoices == {CSeg, CForeign}

PrefixChoices == {PSlash, PNines}

Strategies == {StaticLargeObject, DynamicLargeObject}

Bufs == {<<"x">>, <<"y", "z">>}

OpenTruncate == 0

OpenAppend == 1

OpenKeepSegments == 2

OpenModes == {OpenTruncate, OpenAppend, OpenKeepSegments, OpenAppend + OpenKeepSegments}

HasFlag(mode, flag) == (mode \div flag) % 2 = 1

\* the zero value of AccountHeaders, ContainerHeaders and ObjectHeaders
EmptyHeaders == [empty |-> TRUE, rev |-> 0]

\* the headers of a response, as far as they were parsed
ParsedHeaders(rev) == [empty |-> FALSE, rev |-> rev]

\* what the last operation was and did
LastZero ==
    [op |-> "none", err |-> "nil", mode |-> 0, obj |-> NilObject, seg |-> SegmentZero,
     buf |-> <<>>, bulk |-> <<>>, deleted |-> FALSE, nreq |-> 0, nput |-> 0,
     ret |-> EmptyHeaders, exists |-> FALSE, n |-> 0]

Did(op, err, nreq) == [LastZero EXCEPT !.op = op, !.err = err, !.nreq = nreq]

HasView == ~lo.Object.isnil

\* what has happened to the view: dirty when Strategy, SegmentContainer or
\* SegmentPrefix were assigned while it held a segment; reopened when it was
\* read from an existing large object and only appended to since
NoHistory == [dirty |-> FALSE, reopened |-> FALSE]

Reopened == [dirty |-> FALSE, reopened |-> TRUE]

MaxOps == 8

\* one more operation of the caller, while the run is not yet MaxOps long
Tick == ops < MaxOps /\ ops' = ops + 1

\* ---- caller assigns SegmentContainer, SegmentPrefix and Strategy --------

SetFields(c, p, st) ==
    /\ Tick
    /\ ~crashed /\ HasView
    /\ <<c, p, st>> # <<lo.SegmentContainer, lo.SegmentPrefix, lo.Strategy>>
    /\ lo' = [lo EXCEPT !.SegmentContainer = c, !.SegmentPrefix = p, !.Strategy = st]
    /\ hist' = [dirty |-> hist.dirty \/ Len(lo.segments) > 0, reopened |-> FALSE]
    /\ last' = Did("SetFields", "nil", 0)
    /\ UNCHANGED <<ohdr, w, srv, crashed, rs, bw, otherVars>>

\* ---- Object.AsLargeObject ------------------------------------------------

AsLargeObject ==
    /\ Tick
    /\ ~crashed
    /\ LET k == Key(Target)
           cached == ohdr.cached
           found == cached \/ Exists(srv, k)
           h == IF cached THEN ohdr ELSE IF found THEN HeadOf(srv, k) ELSE NoHeaders
           n == IF cached THEN 0 ELSE 1
       IN  IF ~found
           THEN /\ lo' = FreshView(Target)
                /\ ohdr' = NoHeaders
                /\ w' = FALSE /\ hist' = NoHistory
                /\ last' = Did("AsLargeObject", "nil", n)
           ELSE IF h.manifest # <<>>
           THEN LET r == asDLO(Target, h.manifest, srv)
                IN  /\ ohdr' = h
                    /\ IF r.ok
                       THEN /\ lo' = r.view /\ w' = FALSE /\ hist' = Reopened
                            /\ last' = Did("AsLargeObject", "nil", n + 1)
                       ELSE /\ UNCHANGED <<lo, w, hist>>
                            /\ last' = Did("AsLargeObject", "ErrNotLarge", n)
           ELSE IF h.static
           THEN IF Exists(srv, k) /\ srv[k].kind = "slo"
                THEN LET data == [i \in 1..Len(srv[k].man) |-> RawRecord(srv[k].man[i])]
                         segs == [i \in 1..Len(data) |-> ParseRecord(A1, data[i]).seg]
                     IN  \E maxName \in VoteWinners(segs) :
                            LET r == asSLO(Target, data, maxName)
                            IN  /\ ohdr' = HeadOf(srv, k)
                                /\ IF r.ok
                                   THEN /\ lo' = r.view /\ w' = FALSE /\ hist' = Reopened
                                        /\ last' = Did("AsLargeObject", "nil", n + 1)
                                   ELSE /\ UNCHANGED <<lo, w, hist>>
                                        /\ last' = Did("AsLargeObject", "error", n + 1)
                ELSE /\ ohdr' = h
                     /\ UNCHANGED <<lo, w, hist>>
                     /\ last' = Did("AsLargeObject", "error", n + 1)
           ELSE /\ ohdr' = h
                /\ UNCHANGED <<lo, w, hist>>
                /\ last' = Did("AsLargeObject", "ErrNotLarge", n)
    /\ UNCHANGED <<srv, crashed, rs, bw, otherVars>>

\* the errors a request can fail with, other than not-found
BackendErrors == {"Unauthorized", "ServiceUnavailable"}

\* AsLargeObject when the HEAD request of o.Exists() fails with e
AsLargeObjectFails(e) ==
    /\ Tick
    /\ ~crashed
    /\ ~ohdr.cached
    /\ last' = Did("AsLargeObject", e, 1)
    /\ UNCHANGED <<lo, ohdr, w, srv, crashed, hist, rs, bw, otherVars>>

\* ---- Account.BulkDelete --------------------------------------------------

\* the keys a bulk delete of objs removes in account a
BulkKeys(a, objs) == {<<a, objs[i].c.name, objs[i].name>> : i \in 1..Len(objs)}

\* ---- LargeObject.Open ----------------------------------------------------

\* the checks of Open without the comparison of the accounts
OpenErrorContainerOnly(l) ==
    IF l.SegmentContainer.isnil THEN "ErrNoContainerName" ELSE "nil"

OpenError(l) ==
    IF l.SegmentContainer.isnil THEN "ErrNoContainerName"
    ELSE IF ~AccountIsEqualTo(l.SegmentContainer.a, l.Object.c.a) THEN "ErrAccountMismatch"
    ELSE "nil"

Open(mode) ==
    /\ Tick
    /\ ~crashed /\ HasView
    /\ IF OpenError(lo) # "nil"
       THEN /\ last' = [Did("Open", OpenError(lo), 0) EXCEPT !.mode = mode]
            /\ UNCHANGED <<lo, w, srv>>
       ELSE IF ~HasFlag(mode, OpenAppend)
       THEN IF ~HasFlag(mode, OpenKeepSegments)
            THEN LET objs == segmentObjects(lo.segments)
                     keys == BulkKeys(lo.Object.c.a, objs)
                 IN  \/ /\ srv' = Remove(srv, keys)
                        /\ lo' = [lo EXCEPT !.segments = <<>>]
                        /\ w' = TRUE
                        /\ last' = [Did("Open", "nil", 1) EXCEPT
                                      !.mode = mode, !.bulk = objs, !.deleted = TRUE]
                     \/ /\ last' = [Did("Open", "error", 1) EXCEPT
                                      !.mode = mode, !.bulk = objs]
                        /\ UNCHANGED <<lo, w, srv>>
            ELSE /\ lo' = [lo EXCEPT !.segments = <<>>]
                 /\ w' = TRUE
                 /\ last' = [Did("Open", "nil", 0) EXCEPT !.mode = mode]
                 /\ UNCHANGED srv
       ELSE /\ w' = TRUE
            /\ last' = [Did("Open", "nil", 0) EXCEPT !.mode = mode]
            /\ UNCHANGED <<lo, srv>>
    /\ hist' = [hist EXCEPT !.reopened = @ /\ (OpenError(lo) # "nil" \/ HasFlag(mode, OpenAppend))]
    /\ UNCHANGED <<ohdr, crashed, rs, bw, otherVars>>

\* ---- LargeObject.AddSegment ----------------------------------------------

\* AddSegment that first asks the server for the segment object
AddSegmentWithHead(segment) ==
    /\ Tick
    /\ ~crashed /\ HasView
    /\ Len(lo.segments) < MaxSegs
    /\ LET err == IF Len(segment.Data) = 0 /\ ~segment.Object.isnil
                     /\ ~Exists(srv, Key(segment.Object))
                  THEN "ErrSegmentInvalid"
                  ELSE AddSegmentError(lo, segment)
       IN  /\ lo' = [lo EXCEPT !.segments =
                        IF err = "nil" THEN Append(lo.segments, segment) ELSE lo.segments]
           /\ crashed' = (err = "panic")
           /\ last' = [Did("AddSegment", err, 1) EXCEPT !.seg = segment]
           /\ hist' = [hist EXCEPT !.reopened = @ /\ err # "nil"]
    /\ UNCHANGED <<ohdr, w, srv, rs, bw, otherVars>>

AddSegment(segment) ==
    /\ Tick
    /\ ~crashed /\ HasView
    /\ Len(lo.segments) < MaxSegs
    /\ LET err == AddSegmentError(lo, segment)
       IN  /\ lo' = [lo EXCEPT !.segments = AddSegmentSegments(lo, segment)]
           /\ crashed' = (err = "panic")
           /\ last' = [Did("AddSegment", err, 0) EXCEPT !.seg = segment]
           /\ hist' = [hist EXCEPT !.reopened = @ /\ err # "nil"]
    /\ UNCHANGED <<ohdr, w, srv, rs, bw, otherVars>>

\* ---- largeObjectWriter.Write ---------------------------------------------

\* a Write that adds the segment before it knows what came of the upload
WriteAppendFirst(buf) ==
    /\ Tick
    /\ ~crashed /\ HasView /\ w
    /\ Len(lo.segments) < MaxSegs
    /\ IF NextSegmentPanics(lo) \/ lo.SegmentContainer.isnil
       THEN /\ crashed' = TRUE
            /\ last' = [Did("Write", "panic", 0) EXCEPT !.buf = buf]
            /\ UNCHANGED <<lo, srv>>
       ELSE LET segment == NextSegmentObject(lo)
                info == [SegmentZero EXCEPT !.Object = segment,
                                            !.SizeBytes = Len(buf),
                                            !.Etag = Md5Hex(buf)]
            IN  \/ /\ last' = [Did("Write", "error", 1) EXCEPT !.obj = segment, !.buf = buf]
                   /\ lo' = [lo EXCEPT !.segments = AddSegmentSegments(lo, info)]
                   /\ UNCHANGED <<srv, crashed>>
                \/ /\ srv' = Store(srv, Key(segment), PlainEntry(buf))
                   /\ lo' = [lo EXCEPT !.segments = AddSegmentSegments(lo, info)]
                   /\ crashed' = (AddSegmentError(lo, info) = "panic")
                   /\ last' = [Did("Write", AddSegmentError(lo, info), 1) EXCEPT
                                 !.obj = segment, !.seg = info, !.buf = buf]
    /\ UNCHANGED <<ohdr, w, hist, rs, bw, otherVars>>

Write(buf) ==
    /\ Tick
    /\ ~crashed /\ HasView /\ w
    /\ Len(lo.segments) < MaxSegs
    /\ IF NextSegmentPanics(lo) \/ lo.SegmentContainer.isnil
       THEN /\ crashed' = TRUE
            /\ last' = [Did("Write", "panic", 0) EXCEPT !.buf = buf]
            /\ UNCHANGED <<lo, srv>>
       ELSE LET segment == NextSegmentObject(lo)
                info == [SegmentZero EXCEPT !.Object = segment,
                                            !.SizeBytes = Len(buf),
                                            !.Etag = Md5Hex(buf)]
            IN  \/ /\ last' = [Did("Write", "error", 1) EXCEPT !.obj = segment, !.buf = buf]
                   /\ UNCHANGED <<lo, srv, crashed>>
                \/ /\ srv' = Store(srv, Key(segment), PlainEntry(buf))
                   /\ lo' = [lo EXCEPT !.segments = AddSegmentSegments(lo, info)]
                   /\ crashed' = (AddSegmentError(lo, info) = "panic")
                   /\ last' = [Did("Write", AddSegmentError(lo, info), 1) EXCEPT
                                 !.obj = segment, !.seg = info, !.buf = buf,
                                 !.n = Len(buf)]
    /\ UNCHANGED <<ohdr, w, hist, rs, bw, otherVars>>

\* ---- LargeObject.WriteManifest -------------------------------------------

\* writeSLOManifest on view l with store s and cached headers h; rec is the
\* record of the call so far
writeSLOManifestOf(l, s, h, rec) ==
    LET manifest == RenderManifest(l.segments)
        k == Key(l.Object)
    IN  \/ /\ ManifestAccepted(s, l.Object.c.a, manifest)
           /\ srv' = Store(s, k,
                        SloEntry([i \in 1..Len(manifest) |->
                                     ServerStores(s, l.Object.c.a, manifest[i])]))
           /\ ohdr' = NoHeaders
           /\ last' = [rec EXCEPT !.err = "nil", !.nreq = @ + 1, !.nput = 1]
        \/ /\ last' = [rec EXCEPT !.err = "error", !.nreq = @ + 1, !.nput = 1]
           /\ srv' = s /\ ohdr' = h

writeSLOManifest(op) == writeSLOManifestOf(lo, srv, ohdr, Did(op, "nil", 0))

\* writeDLOManifest that uploads the manifest without looking at the headers
writeDLOManifestUnchecked(l, s, h, rec) ==
    LET manifest == l.SegmentContainer.name \o <<"/">> \o l.SegmentPrefix
        k == Key(l.Object)
    IN  \/ /\ srv' = Store(s, k, DloEntry(manifest))
           /\ ohdr' = NoHeaders
           /\ last' = [rec EXCEPT !.err = "nil", !.nreq = @ + 1, !.nput = 1]
        \/ /\ ohdr' = h
           /\ last' = [rec EXCEPT !.err = "error", !.nreq = @ + 1, !.nput = 1]
           /\ srv' = s

\* writeDLOManifest on view l with store s and cached headers h
writeDLOManifestOf(l, s, h, rec) ==
    LET manifest == l.SegmentContainer.name \o <<"/">> \o l.SegmentPrefix
        k == Key(l.Object)
        found == h.cached \/ Exists(s, k)
        headers == IF h.cached THEN h
                   ELSE IF found THEN HeadOf(s, k) ELSE NoHeaders
        n == IF h.cached THEN 0 ELSE 1
    IN  \/ /\ ~h.cached
           /\ last' = [rec EXCEPT !.err = "error", !.nreq = @ + 1]
           /\ srv' = s /\ ohdr' = h
        \/ /\ headers.manifest = manifest
           /\ ohdr' = headers
           /\ last' = [rec EXCEPT !.err = "nil", !.nreq = @ + n]
           /\ srv' = s
        \/ /\ headers.manifest # manifest
           /\ \/ /\ srv' = Store(s, k, DloEntry(manifest))
                 /\ ohdr' = NoHeaders
                 /\ last' = [rec EXCEPT !.err = "nil", !.nreq = @ + n + 1, !.nput = 1]
              \/ /\ ohdr' = headers
                 /\ last' = [rec EXCEPT !.err = "error", !.nreq = @ + n + 1, !.nput = 1]
                 /\ srv' = s

writeDLOManifest(op) == writeDLOManifestOf(lo, srv, ohdr, Did(op, "nil", 0))

\* WriteManifest on view l: the manifest of its strategy
WriteManifestOf(l, s, h, rec) ==
    IF l.Strategy = StaticLargeObject
    THEN writeSLOManifestOf(l, s, h, rec) /\ crashed' = FALSE
    ELSE IF l.SegmentContainer.isnil
    THEN /\ crashed' = TRUE
         /\ last' = [rec EXCEPT !.err = "panic"]
         /\ srv' = s /\ ohdr' = h
    ELSE writeDLOManifestOf(l, s, h, rec) /\ crashed' = FALSE

WriteManifestAs(op) ==
    /\ Tick
    /\ ~crashed /\ HasView
    /\ WriteManifestOf(lo, srv, ohdr, Did(op, "nil", 0))
    /\ UNCHANGED <<lo, w, hist, rs, bw, otherVars>>

WriteManifest == WriteManifestAs("WriteManifest")

\* largeObjectWriter.Close
Close == w /\ WriteManifestAs("WriteManifest")

\* ---- SetSegmentSize: a bufio.Writer around the writer -------------------

\* no buffered writer yet
NoBuffer == [on |-> FALSE, size |-> 0, buf |-> <<>>, err |-> "nil", base |-> 0, acc |-> <<>>]

\* bufio.NewWriterSize: a size of zero or less gives the default size
BufSize(n) == IF n <= 0 THEN 4096 ELSE n

\* largeObjectWriter.Write(buf) on view l and store s as a function; up tells
\* whether the upload of the segment succeeds
WriterWrite(l, s, buf, up) ==
    IF NextSegmentPanics(l) \/ l.SegmentContainer.isnil
    THEN [lo |-> l, srv |-> s, n |-> 0, err |-> "panic", nreq |-> 0]
    ELSE LET segment == NextSegmentObject(l)
             info == [SegmentZero EXCEPT !.Object = segment,
                                         !.SizeBytes = Len(buf),
                                         !.Etag = Md5Hex(buf)]
         IN  IF ~up
             THEN [lo |-> l, srv |-> s, n |-> 0, err |-> "error", nreq |-> 1]
             ELSE [lo |-> [l EXCEPT !.segments = AddSegmentSegments(l, info)],
                   srv |-> Store(s, Key(segment), PlainEntry(buf)),
                   n |-> Len(buf), err |-> AddSegmentError(l, info), nreq |-> 1]

\* bufio.Writer.Flush of buffer b
Flush(b, l, s, up) ==
    IF b.err # "nil" THEN [b |-> b, lo |-> l, srv |-> s, err |-> b.err, nreq |-> 0]
    ELSE IF b.buf = <<>> THEN [b |-> b, lo |-> l, srv |-> s, err |-> "nil", nreq |-> 0]
    ELSE LET Written(r) ==
                 IF r.err # "nil"
                 THEN [b |-> [b EXCEPT !.buf = SubSeq(b.buf, r.n + 1, Len(b.buf)),
                                       !.err = r.err],
                       lo |-> r.lo, srv |-> r.srv, err |-> r.err, nreq |-> r.nreq]
                 ELSE [b |-> [b EXCEPT !.buf = <<>>],
                       lo |-> r.lo, srv |-> r.srv, err |-> "nil", nreq |-> r.nreq]
         IN  Written(WriterWrite(l, s, b.buf, up))

\* bufio.Writer.Write(p): while p does not fit, an empty buffer passes p on
\* to the writer as it is and a filled one is topped up and flushed; ups
\* tells for each call of the writer whether its upload succeeds
RECURSIVE BufioWrite(_, _, _, _, _, _)
BufioWrite(b, l, s, p, ups, nreq) ==
    IF Len(p) > b.size - Len(b.buf) /\ b.err = "nil"
    THEN IF b.buf = <<>>
         THEN LET Direct(r) ==
                      BufioWrite([b EXCEPT !.err = r.err], r.lo, r.srv,
                                 SubSeq(p, r.n + 1, Len(p)), Tail(ups), nreq + r.nreq)
              IN  Direct(WriterWrite(l, s, p, Head(ups)))
         ELSE LET ToppedUp(n, f) ==
                      BufioWrite(f.b, f.lo, f.srv, SubSeq(p, n + 1, Len(p)), Tail(ups),
                                 nreq + f.nreq)
                  Fill(n) ==
                      ToppedUp(n, Flush([b EXCEPT !.buf = @ \o SubSeq(p, 1, n)],
                                        l, s, Head(ups)))
              IN  Fill(b.size - Len(b.buf))
    ELSE IF b.err # "nil"
    THEN [b |-> b, lo |-> l, srv |-> s, err |-> b.err, nreq |-> nreq]
    ELSE [b |-> [b EXCEPT !.buf = @ \o p], lo |-> l, srv |-> s, err |-> "nil", nreq |-> nreq]

\* SetSegmentSize(w, segmentSizeBytes): a writer that is buffered already is
\* flushed, whatever comes of it, and its inner writer wrapped anew
SetSegmentSize(segmentSizeBytes) ==
    /\ Tick
    /\ ~crashed /\ HasView /\ w
    /\ \E up \in BOOLEAN :
       \E f \in {IF bw.on THEN Flush(bw, lo, srv, up)
                 ELSE [b |-> bw, lo |-> lo, srv |-> srv, err |-> "nil", nreq |-> 0]} :
              /\ lo' = f.lo
              /\ srv' = f.srv
              /\ crashed' = (f.err = "panic")
              /\ bw' = [on |-> TRUE, size |-> BufSize(segmentSizeBytes), buf |-> <<>>,
                        err |-> "nil", base |-> Len(f.lo.segments), acc |-> <<>>]
              /\ last' = Did("SetSegmentSize", "nil", f.nreq)
    /\ UNCHANGED <<ohdr, w, hist, rs, otherVars>>

\* largeObjectBufferedWriter.Write
BufferedWrite(buf) ==
    /\ Tick
    /\ ~crashed /\ HasView /\ bw.on
    /\ Len(lo.segments) < MaxSegs
    /\ \E ups \in [1..2 -> BOOLEAN] :
       \E r \in {BufioWrite(bw, lo, srv, buf, ups, 0)} :
              /\ lo' = r.lo
              /\ srv' = r.srv
              /\ crashed' = (r.err = "panic")
              /\ bw' = [r.b EXCEPT !.acc = IF r.err = "nil" THEN @ \o buf ELSE @]
              /\ last' = [Did("BufferedWrite", r.err, r.nreq) EXCEPT !.buf = buf]
    /\ UNCHANGED <<ohdr, w, hist, rs, otherVars>>

\* a Close that hands on to the inner writer without flushing
BufferedCloseUnflushed ==
    /\ Tick
    /\ ~crashed /\ HasView /\ bw.on
    /\ WriteManifestOf(lo, srv, ohdr, Did("BufferedClose", "nil", 0))
    /\ UNCHANGED <<lo, bw, w, hist, rs, otherVars>>

\* largeObjectBufferedWriter.Close: Flush, then Close of the inner writer
BufferedClose ==
    /\ Tick
    /\ ~crashed /\ HasView /\ bw.on
    /\ \E up \in BOOLEAN :
       \E f \in {Flush(bw, lo, srv, up)} :
              /\ lo' = f.lo
              /\ bw' = f.b
              /\ IF f.err # "nil"
                 THEN /\ srv' = f.srv
                      /\ crashed' = (f.err = "panic")
                      /\ last' = Did("BufferedClose", f.err, f.nreq)
                      /\ UNCHANGED ohdr
                 ELSE WriteManifestOf(f.lo, f.srv, ohdr, Did("BufferedClose", "nil", f.nreq))
    /\ UNCHANGED <<w, hist, rs, otherVars>>

----------------------------------------------------------------------------
(* Handles and their cached headers (account.go, container.go, object.go)  *)
(*                                                                         *)
(* One handle of each kind: an account, a container in it and an object in *)
(* that container, the object handle made by Container.Object of the       *)
(* container handle.  The server keeps of each resource whether it exists, *)
(* the revision of its headers and whether every typed header is well      *)
(* formed.                                                                 *)

Handles == {"Account", "Container", "Object"}

\* headers == nil
NilHeaders == [isnil |-> TRUE, rev |-> 0]

\* headers == &headers
PtrHeaders(rev) == [isnil |-> FALSE, rev |-> rev]

\* the revisions the headers of one resource go through
MaxRev == 2

\* whether a request on the resource of handle h finds it
Present(r, h) ==
    IF h = "Object" THEN r["Container"].exists /\ r["Object"].exists ELSE r[h].exists

\* the resource of h after a write that replaces its headers
Revised(r, h, valid) ==
    [r EXCEPT ![h] = [exists |-> TRUE, rev |-> r[h].rev + 1, valid |-> valid]]

\* Headers() of handle h: the cached headers, or a HEAD that fails with
\* fault, finds nothing, meets a malformed header or stores what it parsed;
\* keepParsed tells whether the parsed headers come back with a
\* MalformedHeaderError
HeadersResult(c, r, h, fault, keepParsed) ==
    IF ~c[h].isnil
    THEN [snap |-> c[h], ret |-> ParsedHeaders(c[h].rev), err |-> "nil", nreq |-> 0]
    ELSE IF fault # "nil"
    THEN [snap |-> NilHeaders, ret |-> EmptyHeaders, err |-> fault, nreq |-> 1]
    ELSE IF ~Present(r, h)
    THEN [snap |-> NilHeaders, ret |-> EmptyHeaders, err |-> "NotFound", nreq |-> 1]
    ELSE IF ~r[h].valid
    THEN [snap |-> NilHeaders,
          ret |-> IF keepParsed THEN ParsedHeaders(r[h].rev) ELSE EmptyHeaders,
          err |-> "MalformedHeaderError", nreq |-> 1]
    ELSE [snap |-> PtrHeaders(r[h].rev), ret |-> ParsedHeaders(r[h].rev),
          err |-> "nil", nreq |-> 1]

\* the call op of a handle has returned x, a result of HeadersResult
HeadersReturns(op, h, x) ==
    /\ cache' = [cache EXCEPT ![h] = x.snap]
    /\ last' = [Did(op, x.err, x.nreq) EXCEPT !.ret = x.ret]
    /\ UNCHANGED remote

\* Exists() of handle h on top of Headers(): not-found is the answer false
ExistsReturns(op, h, x) ==
    /\ cache' = [cache EXCEPT ![h] = x.snap]
    /\ last' = [Did(op, IF x.err = "NotFound" THEN "nil" ELSE x.err, x.nreq) EXCEPT
                  !.exists = (x.err = "nil")]
    /\ UNCHANGED remote

\* a write of handle h has returned err after one request; it leaves the
\* resources as r and, when clear is set, has run Invalidate on handle inv
WriteReturns(op, err, r, clear, inv) ==
    /\ remote' = r
    /\ cache' = IF clear THEN [cache EXCEPT ![inv] = NilHeaders] ELSE cache
    /\ last' = Did(op, err, 1)

\* what the large-object model leaves alone
LargeVars == <<lo, ohdr, w, srv, crashed, hist, rs, bw>>

Account_Headers(fault) ==
    /\ Tick
    /\ HeadersReturns("Account.Headers", "Account",
                      HeadersResult(cache, remote, "Account", fault, TRUE))
    /\ UNCHANGED <<LargeVars, net, pipe>>

Account_Update(fault, valid) ==
    /\ Tick
    /\ remote["Account"].rev < MaxRev
    /\ IF fault # "nil"
       THEN WriteReturns("Account.Update", fault, remote, FALSE, "Account")
       ELSE WriteReturns("Account.Update", "nil", Revised(remote, "Account", valid),
                         TRUE, "Account")
    /\ UNCHANGED <<LargeVars, net, pipe>>

Account_Create(fault) ==
    /\ Tick
    /\ IF fault # "nil"
       THEN WriteReturns("Account.Create", fault, remote, FALSE, "Account")
       ELSE WriteReturns("Account.Create", "nil", remote, TRUE, "Account")
    /\ UNCHANGED <<LargeVars, net, pipe>>

Container_Exists(fault) ==
    /\ Tick
    /\ ExistsReturns("Container.Exists", "Container",
                     HeadersResult(cache, remote, "Container", fault, FALSE))
    /\ UNCHANGED <<LargeVars, net, pipe>>

\* a malformed header gives ContainerHeaders{} and the error
Container_Headers(fault) ==
    /\ Tick
    /\ HeadersReturns("Container.Headers", "Container",
                      HeadersResult(cache, remote, "Container", fault, FALSE))
    /\ UNCHANGED <<LargeVars, net, pipe>>

Container_Update(fault, valid) ==
    /\ Tick
    /\ remote["Container"].rev < MaxRev
    /\ IF fault # "nil"
       THEN WriteReturns("Container.Update", fault, remote, FALSE, "Container")
       ELSE IF ~Present(remote, "Container")
       THEN WriteReturns("Container.Update", "NotFound", remote, FALSE, "Container")
       ELSE WriteReturns("Container.Update", "nil", Revised(remote, "Container", valid),
                         TRUE, "Container")
    /\ UNCHANGED <<LargeVars, net, pipe>>

Container_Create(fault) ==
    /\ Tick
    /\ IF fault # "nil"
       THEN WriteReturns("Container.Create", fault, remote, FALSE, "Container")
       ELSE WriteReturns("Container.Create", "nil",
                         [remote EXCEPT !["Container"].exists = TRUE], TRUE, "Container")
    /\ UNCHANGED <<LargeVars, net, pipe>>

Container_Delete(fault) ==
    /\ Tick
    /\ IF fault # "nil"
       THEN WriteReturns("Container.Delete", fault, remote, FALSE, "Container")
       ELSE IF ~Present(remote, "Container")
       THEN WriteReturns("Container.Delete", "NotFound", remote, FALSE, "Container")
       ELSE IF remote["Object"].exists
       THEN WriteReturns("Container.Delete", "Conflict", remote, FALSE, "Container")
       ELSE WriteReturns("Container.Delete", "nil",
                         [remote EXCEPT !["Container"].exists = FALSE], TRUE, "Container")
    /\ UNCHANGED <<LargeVars, net, pipe>>

\* the PUT of EnsureExists is followed by no Invalidate
Container_EnsureExists(fault) ==
    /\ Tick
    /\ IF fault # "nil"
       THEN WriteReturns("Container.EnsureExists", fault, remote, FALSE, "Container")
       ELSE WriteReturns("Container.EnsureExists", "nil",
                         [remote EXCEPT !["Container"].exists = TRUE], FALSE, "Container")
    /\ UNCHANGED <<LargeVars, net, pipe>>

Object_Exists(fault) ==
    /\ Tick
    /\ ExistsReturns("Object.Exists", "Object",
                     HeadersResult(cache, remote, "Object", fault, TRUE))
    /\ UNCHANGED <<LargeVars, net, pipe>>

Object_Headers(fault) ==
    /\ Tick
    /\ HeadersReturns("Object.Headers", "Object",
                      HeadersResult(cache, remote, "Object", fault, TRUE))
    /\ UNCHANGED <<LargeVars, net, pipe>>

Object_Update(fault, valid) ==
    /\ Tick
    /\ remote["Object"].rev < MaxRev
    /\ IF fault # "nil"
       THEN WriteReturns("Object.Update", fault, remote, FALSE, "Object")
       ELSE IF ~Present(remote, "Object")
       THEN WriteReturns("Object.Update", "NotFound", remote, FALSE, "Object")
       ELSE WriteReturns("Object.Update", "nil", Revised(remote, "Object", valid),
                         TRUE, "Object")
    /\ UNCHANGED <<LargeVars, net, pipe>>

\* Upload: streamed tells that the Etag could not be computed in advance, so
\* that Upload compares its own checksum with the Etag of the response, and
\* differs that the two are not the same
Object_Upload(fault, streamed, differs) ==
    /\ Tick
    /\ remote["Object"].rev < MaxRev
    /\ IF fault # "nil"
       THEN WriteReturns("Object.Upload", fault, remote, FALSE, "Object")
       ELSE IF ~Present(remote, "Container")
       THEN WriteReturns("Object.Upload", "NotFound", remote, FALSE, "Object")
       ELSE WriteReturns("Object.Upload",
                         IF streamed /\ differs THEN "ErrChecksumMismatch" ELSE "nil",
                         Revised(remote, "Object", TRUE), TRUE, "Object")
    /\ UNCHANGED <<LargeVars, net, pipe>>

\* a successful DELETE is followed by o.c.Invalidate(): the container handle
\* of the object loses its headers, the object handle keeps its own
Object_Delete(fault) ==
    /\ Tick
    /\ IF fault # "nil"
       THEN WriteReturns("Object.Delete", fault, remote, FALSE, "Object")
       ELSE IF ~Present(remote, "Object")
       THEN WriteReturns("Object.Delete", "NotFound", remote, FALSE, "Object")
       ELSE WriteReturns("Object.Delete", "nil",
                         [remote EXCEPT !["Object"].exists = FALSE], TRUE, "Container")
    /\ UNCHANGED <<LargeVars, net, pipe>>

----------------------------------------------------------------------------
(* The backend: gophercloudClient.Do (client.go)                           *)
(*                                                                         *)
(* net.pc is the position of the call, net.token the token the provider    *)
(* holds, net.sent the attempts made for this call, each with the token it *)
(* carried and the status of its response (0 when HTTPClient.Do failed).   *)

NoCall ==
    [pc |-> "idle", afterReauth |-> FALSE, token |-> 0, sent |-> <<>>,
     resp |-> 0, err |-> "nil", calls |-> 0]

\* the calls of Do and the tokens the provider can be given
MaxCalls == 4

MaxToken == 3

StatusUnauthorized == 401

\* the statuses of the responses; 0 stands for a failure of HTTPClient.Do
Statuses == {0, 200, 204, StatusUnauthorized, 404}

\* resp.StatusCode == http.StatusUnauthorized, whether first attempt or not
ExpiredTokenAlways(status, afterReauth) == status = StatusUnauthorized

\* resp.StatusCode == http.StatusUnauthorized && !afterReauth
ExpiredToken(status, afterReauth) == status = StatusUnauthorized /\ ~afterReauth

\* g.Do(req): g.do(req, false)
Do ==
    /\ net.pc \in {"idle", "done"}
    /\ net.calls < MaxCalls
    /\ net' = [net EXCEPT !.pc = "send", !.afterReauth = FALSE, !.sent = <<>>,
                          !.resp = 0, !.err = "nil", !.calls = @ + 1]
    /\ UNCHANGED <<LargeVars, last, ops, cacheVars, pipe>>

\* the headers are set from the provider and the request is sent; the
\* response is returned unless it tells of an expired token
Send(status) ==
    /\ net.pc = "send"
    /\ net' = [net EXCEPT
                 !.sent = Append(@, [token |-> net.token, status |-> status]),
                 !.pc = IF status # 0 /\ ExpiredToken(status, net.afterReauth)
                        THEN "drain" ELSE "done",
                 !.resp = IF status # 0 /\ ~ExpiredToken(status, net.afterReauth)
                          THEN status ELSE 0,
                 !.err = IF status = 0 THEN "error" ELSE "nil"]
    /\ UNCHANGED <<LargeVars, last, ops, cacheVars, pipe>>

\* drainResponseBody(resp)
Drain(ok) ==
    /\ net.pc = "drain"
    /\ net' = IF ok THEN [net EXCEPT !.pc = "reauth"]
              ELSE [net EXCEPT !.pc = "done", !.err = "DrainError"]
    /\ UNCHANGED <<LargeVars, last, ops, cacheVars, pipe>>

\* provider.Reauthenticate, then g.do(req, true)
Reauthenticate(ok) ==
    /\ net.pc = "reauth"
    /\ net.token < MaxToken
    /\ net' = IF ok THEN [net EXCEPT !.pc = "send", !.token = @ + 1, !.afterReauth = TRUE]
              ELSE [net EXCEPT !.pc = "done", !.err = "ReauthError"]
    /\ UNCHANGED <<LargeVars, last, ops, cacheVars, pipe>>

----------------------------------------------------------------------------
(* Object.UploadWithWriter (object.go)                                     *)
(*                                                                         *)
(* Two goroutines: the caller, which runs the callback, closes the writer  *)
(* and receives from errChan, and the goroutine, which runs Upload on the  *)
(* reader, closes the reader and sends on errChan.  io.Pipe hands each     *)
(* Write to a Read directly: a Write returns when a Read has taken its     *)
(* bytes or when either end is closed, a Read returns when a Write offers  *)
(* bytes or when either end is closed.  errChan has no buffer.             *)

\* the writes the callback makes at most
MaxWrites == 2

\* caller.pc: callback, writing, close, receive, returned
\* goroutine.pc: upload, close, send, exit
NoUpload ==
    [caller |-> "callback", goroutine |-> "upload", left |-> MaxWrites,
     seen |-> "nil", wclosed |-> FALSE, werr |-> "nil", rclosed |-> FALSE, rerr |-> "nil",
     read |-> 0, err |-> "unset", ret |-> "unset"]

\* what Upload can return
UploadResults == {"nil", "ErrChecksumMismatch", "UnexpectedStatusCodeError"}

\* what the callback can return: nil, an error of its own, or the error a
\* Write on the pipe gave it
CallbackResults(p) == {"nil", "callbackError"} \cup {p.seen}

\* the error of a Write after reader.CloseWithError(err)
WriteCloseError(err) == IF err = "nil" THEN "ErrClosedPipe" ELSE err

PipeVars == <<LargeVars, last, ops, cacheVars, net>>

\* the callback calls Write on the pipe
CallbackWrite ==
    /\ pipe.caller = "callback" /\ pipe.left > 0
    /\ pipe' = [pipe EXCEPT !.caller = "writing", !.left = @ - 1]
    /\ UNCHANGED PipeVars

\* the Write returns with the error of the closed reader
WriteFails ==
    /\ pipe.caller = "writing" /\ pipe.rclosed
    /\ pipe' = [pipe EXCEPT !.caller = "callback", !.seen = WriteCloseError(pipe.rerr)]
    /\ UNCHANGED PipeVars

\* the callback returns
CallbackReturns(e) ==
    /\ pipe.caller = "callback"
    /\ pipe' = [pipe EXCEPT !.caller = "close", !.werr = e]
    /\ UNCHANGED PipeVars

\* writer.CloseWithError(callback(writer))
CloseWriter ==
    /\ pipe.caller = "close"
    /\ pipe' = [pipe EXCEPT !.caller = "receive", !.wclosed = TRUE]
    /\ UNCHANGED PipeVars

\* Upload reads what the Write of the callback offers, and the Write returns
UploadReads ==
    /\ pipe.goroutine = "upload" /\ pipe.caller = "writing" /\ ~pipe.rclosed
    /\ pipe' = [pipe EXCEPT !.caller = "callback", !.read = @ + 1]
    /\ UNCHANGED PipeVars

\* Upload reads the end of the content, or the error of the callback, and
\* returns
UploadEnds(e) ==
    /\ pipe.goroutine = "upload" /\ pipe.wclosed
    /\ pipe' = [pipe EXCEPT !.goroutine = "close", !.err = e]
    /\ UNCHANGED PipeVars

\* Upload returns while the writer is still open
UploadEndsEarly(e) ==
    /\ pipe.goroutine = "upload" /\ ~pipe.wclosed
    /\ pipe' = [pipe EXCEPT !.goroutine = "close", !.err = e]
    /\ UNCHANGED PipeVars

\* the goroutine goes on to errChan without closing the reader
SkipCloseReader ==
    /\ pipe.goroutine = "close"
    /\ pipe' = [pipe EXCEPT !.goroutine = "send"]
    /\ UNCHANGED PipeVars

\* reader.CloseWithError(err)
CloseReader ==
    /\ pipe.goroutine = "close"
    /\ pipe' = [pipe EXCEPT !.goroutine = "send", !.rclosed = TRUE, !.rerr = pipe.err]
    /\ UNCHANGED PipeVars

\* errChan <- err meets return <-errChan
ErrChan ==
    /\ pipe.goroutine = "send" /\ pipe.caller = "receive"
    /\ pipe' = [pipe EXCEPT !.goroutine = "exit", !.caller = "returned", !.ret = pipe.err]
    /\ UNCHANGED PipeVars

\* no handle has looked at its resource yet, no request is under way
OtherInit ==
    /\ cache = [h \in Handles |-> NilHeaders]
    /\ remote = [h \in Handles |-> [exists |-> h = "Account", rev |-> 0, valid |-> TRUE]]
    /\ net = NoCall
    /\ pipe = NoUpload

----------------------------------------------------------------------------
(* The life of one view: Spec                                              *)

XBody == <<"x", "y", "z">>

\* an object outside the prefixes, and its namesake in the other account
X1 == Object(CSeg, <<"o", "/", "x">>)

X2 == Object(CForeign, <<"o", "/", "x">>)

\* the first segment a writer creates under PSlash
S1 == Object(CSeg, PSlash \o initialIndex)

SegObject(o) == [SegmentZero EXCEPT !.Object = o]

SegRange(o, off, len) == [SegmentZero EXCEPT !.Object = o, !.RangeOffset = off, !.RangeLength = len]

SegData(d) == [SegmentZero EXCEPT !.Data = d]

\* the descriptors the caller passes to AddSegment under Spec
MainSegments == {SegObject(S1), SegData(<<"d">>)}

\* the store before the program starts: one object in each account
InitialStore == Store(Store(<<>>, Key(X1), PlainEntry(XBody)), Key(X2), PlainEntry(XBody))

Init ==
    /\ lo = NoView
    /\ ohdr = NoHeaders
    /\ w = FALSE
    /\ srv = InitialStore
    /\ last = LastZero
    /\ crashed = FALSE
    /\ hist = NoHistory
    /\ rs = <<>>
    /\ ops = 0
    /\ bw = NoBuffer
    /\ OtherInit

Next ==
    \/ AsLargeObject
    \/ \E p \in PrefixChoices, st \in Strategies : SetFields(CSeg, p, st)
    \/ \E mode \in OpenModes : Open(mode)
    \/ \E buf \in Bufs : Write(buf)
    \/ \E segment \in MainSegments : AddSegment(segment)
    \/ WriteManifest
    \/ Close

Spec == Init /\ [][Next]_vars

----------------------------------------------------------------------------
(* The caller builds the sequence by hand: SpecAdd                         *)

\* in the account of Target, in another container
X4 == Object(Container(A1, <<"l">>), PSlash \o initialIndex)

Minus(n) == Int64(TRUE, Dec(n))

Plus(n) == Int64(FALSE, Dec(n))

\* the descriptors the caller passes to AddSegment under SpecAdd
AllSegments ==
    {SegmentZero,
     SegObject(S1), SegObject(X2), SegObject(X1), SegObject(X4),
     [SegObject(S1) EXCEPT !.SizeBytes = Len(XBody), !.Etag = Md5Hex(XBody)],
     SegRange(S1, Plus(1), Dec(2)), SegRange(S1, Plus(0), Dec(1)), SegRange(S1, Plus(1), Dec(0)),
     SegRange(S1, Minus(1), Dec(0)), SegRange(S1, Minus(1), Dec(2)),
     SegRange(X2, Minus(1), Dec(0)), SegRange(X4, Plus(1), Dec(2)),
     SegData(<<"d">>),
     [SegData(<<"d">>) EXCEPT !.Object = X1],
     [SegData(<<"d">>) EXCEPT !.SizeBytes = 1],
     [SegData(<<"d">>) EXCEPT !.Etag = Md5Hex(<<"d">>)],
     [SegData(<<"d">>) EXCEPT !.RangeLength = Dec(1)],
     [SegData(<<"d">>) EXCEPT !.RangeOffset = Plus(1)]}

NextAdd ==
    \/ AsLargeObject
    \/ \E c \in ContainerChoices, p \in PrefixChoices, st \in Strategies : SetFields(c, p, st)
    \/ \E segment \in AllSegments : AddSegment(segment)
    \/ \E mode \in OpenModes : Open(mode)

SpecAdd == Init /\ [][NextAdd]_vars

----------------------------------------------------------------------------
(* One descriptor through AddSegment, the manifest rendering and the       *)
(* range parser: SpecRange                                                 *)

MinInt64Abs == NatAdd(MaxInt64, DecOne)

RangeOffsets ==
    {Minus(1), Minus(5), Int64(TRUE, MinInt64Abs), Plus(0), Plus(1), Plus(5),
     Int64(FALSE, MaxInt64)}

RangeLengths == {Dec(0), Dec(1), Dec(2), Dec(5), MaxInt64, MaxUint64}

RangeSegments ==
    {SegRange(X1, off, len) : off \in RangeOffsets, len \in RangeLengths}
        \cup {SegData(<<"d">>), SegData(<<"d", "e">>)}

\* a static view as the caller sets it up before the first AddSegment
StaticView == [FreshView(Target) EXCEPT !.SegmentContainer = CSeg, !.SegmentPrefix = PSlash]

NoRecord == [stage |-> "input", seg |-> SegmentZero, err |-> "nil", record |-> SloZero,
             parsed |-> parseHTTPRange(<<>>)]

InitRange ==
    /\ lo = StaticView
    /\ ohdr = NoHeaders
    /\ w = FALSE
    /\ srv = InitialStore
    /\ last = LastZero
    /\ crashed = FALSE
    /\ hist = NoHistory
    /\ ops = 0
    /\ bw = NoBuffer
    /\ OtherInit
    /\ \E segment \in RangeSegments : rs = [NoRecord EXCEPT !.seg = segment]

\* AddSegment decides on the descriptor
RangeAdd ==
    /\ rs.stage = "input"
    /\ rs' = [rs EXCEPT !.stage = "added", !.err = AddSegmentError(lo, rs.seg)]
    /\ UNCHANGED <<lo, ohdr, w, srv, last, crashed, hist, ops, bw, otherVars>>

\* writeSLOManifest renders the record of an accepted descriptor
RangeRender ==
    /\ rs.stage = "added" /\ rs.err = "nil"
    /\ rs' = [rs EXCEPT !.stage = "rendered", !.record = RenderSegment(rs.seg)]
    /\ UNCHANGED <<lo, ohdr, w, srv, last, crashed, hist, ops, bw, otherVars>>

\* parseHTTPRange reads the rendered range
RangeParse ==
    /\ rs.stage = "rendered"
    /\ rs' = [rs EXCEPT !.stage = "parsed", !.parsed = parseHTTPRange(rs.record.Range)]
    /\ UNCHANGED <<lo, ohdr, w, srv, last, crashed, hist, ops, bw, otherVars>>

NextRange == RangeAdd \/ RangeRender \/ RangeParse

SpecRange == InitRange /\ [][NextRange]_vars

----------------------------------------------------------------------------
(* Claims about the manifest rendering and the range parser (SpecRange)    *)

\* the range the record of an object-backed segment is said to carry, with
\* offset+length-1 computed in 64 bits as the manifest writer computes it
StatedRange(s) ==
    IF s.RangeOffset = Int64Zero /\ s.RangeLength = DecZero THEN <<>>
    ELSE IF IsNegative(s.RangeOffset) THEN <<"-">> \o FormatUint(s.RangeLength)
    ELSE FormatUint(s.RangeOffset.abs) \o <<"-">>
           \o FormatUint(U64Sub(U64Add(s.RangeOffset.abs, s.RangeLength), DecOne))

Rendered == rs.stage \in {"rendered", "parsed"}

\* C9: in the static manifest the range of an object-backed segment reads
\* offset-(offset+length-1) for an offset >= 0 and -length for an offset < 0
\* and is left out when offset and length are both zero; an inline-data
\* segment is rendered with nothing but its base64 data.
C9_RangeRendering ==
    Rendered =>
        IF Len(rs.seg.Data) > 0
        THEN rs.record = [SloZero EXCEPT !.DataBase64 = Base64Encode(rs.seg.Data)]
        ELSE rs.record.Range = StatedRange(rs.seg)

\* C10: the range rendered for a descriptor that AddSegment accepted under
\* the static strategy is accepted by parseHTTPRange and parses back to the
\* same RangeOffset and RangeLength.
C10_RangeRoundTrip ==
    (rs.stage = "parsed" /\ Len(rs.seg.Data) = 0) =>
        /\ rs.parsed.ok
        /\ rs.parsed.offsetVal = rs.seg.RangeOffset
        /\ rs.parsed.lengthVal = rs.seg.RangeLength

----------------------------------------------------------------------------
(* Claims about AddSegment and Open (SpecAdd)                              *)

\* the objects the segments of a sequence reference
Referenced(segs) == {segs[i].Object : i \in {j \in 1..Len(segs) : ~segs[j].Object.isnil}}

Occurrences(objs, o) == Cardinality({j \in 1..Len(objs) : objs[j] = o})

\* C3: a successful Open without OpenAppend empties the sequence, after a
\* bulk delete that names every referenced segment object exactly once (and
\* no inline-data segment) exactly when OpenKeepSegments is not set; with
\* OpenAppend nothing is deleted and the sequence stays; after a truncating
\* Open the next segment is named SegmentPrefix + 0000000000000001.
C3_OpenTruncates ==
    [][(last'.op = "Open" /\ last'.err = "nil") =>
          IF HasFlag(last'.mode, OpenAppend)
          THEN /\ ~last'.deleted /\ last'.nreq = 0 /\ srv' = srv
               /\ lo'.segments = lo.segments
          ELSE /\ lo'.segments = <<>>
               /\ last'.deleted = ~HasFlag(last'.mode, OpenKeepSegments)
               /\ ~last'.deleted => (last'.nreq = 0 /\ srv' = srv)
               /\ last'.deleted =>
                     /\ \A o \in Referenced(lo.segments) : Occurrences(last'.bulk, o) = 1
                     /\ \A j \in 1..Len(last'.bulk) : last'.bulk[j] \in Referenced(lo.segments)
               /\ NextSegmentObject(lo').name = lo'.SegmentPrefix \o initialIndex]_vars

\* the error matrix of AddSegment, row by row
MatrixError(l, segment) ==
    IF Len(segment.Data) = 0
    THEN IF segment.Object.isnil THEN "ErrSegmentInvalid"
         ELSE IF segment.Object.c.a # l.Object.c.a THEN "ErrAccountMismatch"
         ELSE IF l.Strategy = DynamicLargeObject
                 /\ (segment.RangeLength # DecZero \/ segment.RangeOffset # Int64Zero)
         THEN "ErrSegmentInvalid"
         ELSE IF l.Strategy = DynamicLargeObject
                 /\ (segment.Object.c # l.SegmentContainer
                     \/ ~HasPrefix(segment.Object.name, l.SegmentPrefix))
         THEN "ErrContainerMismatch"
         ELSE IF l.Strategy = StaticLargeObject
                 /\ segment.RangeLength = DecZero /\ IsNegative(segment.RangeOffset)
         THEN "ErrSegmentInvalid"
         ELSE "nil"
    ELSE IF l.Strategy = DynamicLargeObject THEN "ErrSegmentInvalid"
         ELSE IF [segment EXCEPT !.Data = <<>>] # SegmentZero THEN "ErrSegmentInvalid"
         ELSE "nil"

\* C5: AddSegment returns the error of the error matrix and nil otherwise;
\* on an error the sequence is unchanged, on nil exactly the given
\* descriptor has been appended at the end.
C5_ErrorMatrix ==
    [][last'.op = "AddSegment" =>
          /\ last'.err = MatrixError(lo, last'.seg)
          /\ lo'.segments = IF last'.err = "nil"
                            THEN Append(lo.segments, last'.seg)
                            ELSE lo.segments]_vars

\* C6: AddSegment sends no request and leaves the server as it was, whether
\* it accepts or rejects the descriptor.
C6_AddSegmentOffline ==
    [][last'.op = "AddSegment" => (last'.nreq = 0 /\ srv' = srv /\ ohdr' = ohdr)]_vars

\* an AddSegment has been rejected after another one was accepted
C6_Witness ==
    /\ last.op = "AddSegment"
    /\ last.err \in {"ErrSegmentInvalid", "ErrAccountMismatch", "ErrContainerMismatch"}
    /\ Len(lo.segments) > 0

\* C7: every object-backed segment of the sequence references an object in
\* the account of the target object of the view.
C7_SameAccount ==
    \A i \in 1..Len(lo.segments) :
        ~lo.segments[i].Object.isnil => lo.segments[i].Object.c.a = lo.Object.c.a

----------------------------------------------------------------------------
(* Claims about writing and reading back (Spec)                            *)

\* the bytes one segment contributes, read from store s
SegmentBytes(s, segment) ==
    IF Len(segment.Data) > 0 THEN segment.Data
    ELSE LET k    == Key(segment.Object)
             body == IF Exists(s, k) THEN s[k].body ELSE <<>>
             n    == Len(body)
         IN  IF segment.RangeOffset = Int64Zero /\ segment.RangeLength = DecZero THEN body
             ELSE IF IsNegative(segment.RangeOffset)
             THEN SubSeq(body, n - Clamp(segment.RangeLength, n) + 1, n)
             ELSE LET from == Clamp(segment.RangeOffset.abs, n)
                  IN  IF segment.RangeLength = DecZero THEN SubSeq(body, from + 1, n)
                      ELSE SubSeq(body, from + 1, from + Clamp(segment.RangeLength, n - from))

\* C1: after a successful WriteManifest or Close on a view built by Open,
\* Write and AddSegment calls, a GET of the target object returns the bytes
\* of the segments of Segments(), concatenated in order.
C1_ContentIsSegments ==
    (last.op = "WriteManifest" /\ last.err = "nil" /\ ~hist.dirty) =>
        /\ Content(srv, Key(lo.Object)).ok
        /\ Content(srv, Key(lo.Object)).body =
              Concat([i \in 1..Len(lo.segments) |-> SegmentBytes(srv, lo.segments[i])])

\* the 16-digit zero-padded decimal i
Pad16(i) == FormatUint(PadLeft(Dec(i), 16))

\* the sequence of l is what n Writes under prefix p leave behind
Numbered(l, p, n) ==
    /\ Len(l.segments) = n
    /\ \A i \in 1..n :
          /\ l.segments[i].Object = Object(l.SegmentContainer, p \o Pad16(i))
          /\ l.segments[i].Etag # <<>>
          /\ l.segments[i].Data = <<>>

\* the descriptor Write appends for buffer buf uploaded to object o
Written(o, buf) ==
    [SegmentZero EXCEPT !.Object = o, !.SizeBytes = Len(buf), !.Etag = Md5Hex(buf)]

\* C2: from an empty sequence the i-th Write uploads its buffer to the
\* object SegmentPrefix + 16-digit i in SegmentContainer and appends the
\* descriptor of that object with the length and the MD5 of the buffer, so
\* that n Writes leave exactly these n descriptors in call order.
C2_WriteNaming ==
    [][(/\ last'.op = "Write" /\ last'.err = "nil"
        /\ ~hist.reopened
        /\ Numbered(lo, lo.SegmentPrefix, Len(lo.segments))) =>
          LET o == Object(lo.SegmentContainer, lo.SegmentPrefix \o Pad16(Len(lo.segments) + 1))
          IN  /\ last'.obj = o
              /\ Exists(srv', Key(o)) /\ srv'[Key(o)] = PlainEntry(last'.buf)
              /\ lo'.segments = Append(lo.segments, Written(o, last'.buf))
              /\ Numbered(lo', lo.SegmentPrefix, Len(lo.segments) + 1)]_vars

\* the name NextSegmentObject is said to choose: the successor of the name
\* of the last segment that is object-backed, in SegmentContainer and under
\* SegmentPrefix, and SegmentPrefix + 0000000000000001 without such a segment
StatedNextName(l) ==
    LET q == {i \in 1..Len(l.segments) :
                 /\ ~l.segments[i].Object.isnil
                 /\ l.segments[i].Object.c = l.SegmentContainer
                 /\ HasPrefix(l.segments[i].Object.name, l.SegmentPrefix)}
    IN  IF q = {} THEN l.SegmentPrefix \o initialIndex
        ELSE nextSegmentName(l.segments[CHOOSE i \in q : \A j \in q : j <= i].Object.name)

\* the prefix a counted name was written under
WrittenPrefix(name) == SubSeq(name, 1, Len(name) - 16)

\* C4: a Write uploads to the name derived from the last qualifying segment
\* (SegmentPrefix + 0000000000000001 when none qualifies); and on a view
\* reopened from n numbered segments and opened with OpenAppend, a Write is
\* numbered n+1 and appended after the existing entries, which keep their
\* order.
C4_AppendNumbering ==
    [][(last'.op = "Write" /\ last'.err = "nil") =>
          /\ last'.obj = Object(lo.SegmentContainer, StatedNextName(lo))
          /\ (/\ hist.reopened
              /\ Len(lo.segments) > 0
              /\ Len(lo.segments[1].Object.name) > 16
              /\ Numbered(lo, WrittenPrefix(lo.segments[1].Object.name), Len(lo.segments))) =>
                LET p == WrittenPrefix(lo.segments[1].Object.name)
                    o == Object(lo.SegmentContainer, p \o Pad16(Len(lo.segments) + 1))
                IN  /\ last'.obj = o
                    /\ lo'.segments = Append(lo.segments, Written(o, last'.buf))]_vars

----------------------------------------------------------------------------
(* Opening an existing static large object: SpecOpen                       *)

MaxRecs == 2

\* the calls made on one stored manifest
OpenSteps == 3

CTie == Container(A1, <<"d">>)

\* the successor of S1 under PSlash
S2 == Object(CSeg, PSlash \o nextSegmentName(initialIndex))

\* segment objects whose names start with a slash or contain two in a row
XLead == Object(CSeg, <<"/", "1">>)

XTwin == Object(CSeg, <<"o", "/", "/", "1">>)

\* a segment object in another container of the account
T1 == Object(CTie, <<"x", "1">>)

OpenObjects == {S1, S2, XLead, XTwin, T1}

\* the store that holds the segment objects before the manifest is written
RECURSIVE StoreAll(_, _)
StoreAll(s, objs) ==
    IF objs = {} THEN s
    ELSE LET o == CHOOSE x \in objs : TRUE
         IN  StoreAll(Store(s, Key(o), PlainEntry(XBody)), objs \ {o})

OpenStore == StoreAll(InitialStore, OpenObjects)

\* the records of the manifests that may have been uploaded for Target
OpenRecords ==
    {RenderSegment(SegObject(o)) : o \in OpenObjects} \cup {RenderSegment(SegData(<<"d">>))}

Manifests == UNION {[1..n -> OpenRecords] : n \in 0..MaxRecs}

InitOpen ==
    /\ lo = NoView
    /\ ohdr = NoHeaders
    /\ w = FALSE
    /\ \/ srv = OpenStore
       \/ srv = Store(OpenStore, Key(Target), PlainEntry(XBody))
       \/ \E man \in Manifests :
             /\ ManifestAccepted(OpenStore, A1, man)
             /\ srv = Store(OpenStore, Key(Target),
                            SloEntry([i \in 1..Len(man) |-> ServerStores(OpenStore, A1, man[i])]))
    /\ last = LastZero
    /\ crashed = FALSE
    /\ hist = NoHistory
    /\ rs = <<>>
    /\ ops = 0
    /\ bw = NoBuffer
    /\ OtherInit

NextOpen ==
    \/ ops < OpenSteps /\ AsLargeObject
    \/ ops < OpenSteps /\ \E e \in BackendErrors : AsLargeObjectFails(e)
    \/ ops < OpenSteps /\ \E mode \in OpenModes : Open(mode)

SpecOpen == InitOpen /\ [][NextOpen]_vars

----------------------------------------------------------------------------
(* Claims about opening an existing static large object (SpecOpen)         *)

\* AsLargeObject has just returned a static view with an object-backed segment
OpenedStatic ==
    /\ last.op = "AsLargeObject" /\ last.err = "nil"
    /\ lo.Strategy = StaticLargeObject
    /\ \E i \in 1..Len(lo.segments) : ~lo.segments[i].Object.isnil

\* p cut back to and including its last slash, p itself when it has none
CutAtLastSlash(p) ==
    LET slashes == {i \in 1..Len(p) : p[i] = "/"}
    IN  IF slashes = {} THEN p
        ELSE SubSeq(p, 1, CHOOSE x \in slashes : \A y \in slashes : y <= x)

\* C11: the SegmentPrefix inferred for an existing static large object is
\* the longest common prefix of the names of the segments in the chosen
\* container, cut back to and including its last slash if it has one, and
\* so it is a prefix of each of these names.
C11_InferredPrefix ==
    OpenedStatic =>
        LET names == NamesIn(lo.segments, lo.SegmentContainer.name)
        IN  /\ lo.SegmentPrefix = CutAtLastSlash(LongestCommonPrefix(names))
            /\ \A i \in 1..Len(names) : HasPrefix(names[i], lo.SegmentPrefix)

\* the number of object-backed segments of segs in a container called n
Votes(segs, n) ==
    Cardinality({i \in 1..Len(segs) : ~segs[i].Object.isnil /\ segs[i].Object.c.name = n})

\* C12: the SegmentContainer inferred for a static large object is the
\* container that most object-backed segments reference, and opening the
\* same manifest twice yields the same SegmentContainer and SegmentPrefix,
\* also when containers are tied.
C12_DeterministicVote ==
    [][(/\ last'.op = "AsLargeObject" /\ last'.err = "nil"
        /\ lo'.Strategy = StaticLargeObject
        /\ \E i \in 1..Len(lo'.segments) : ~lo'.segments[i].Object.isnil) =>
          /\ lo'.SegmentContainer.a = lo'.Object.c.a
          /\ \A i \in 1..Len(lo'.segments) :
                ~lo'.segments[i].Object.isnil =>
                    Votes(lo'.segments, lo'.segments[i].Object.c.name)
                        <= Votes(lo'.segments, lo'.SegmentContainer.name)
          /\ (last.op = "AsLargeObject" /\ last.err = "nil" /\ srv' = srv) =>
                /\ lo'.SegmentContainer = lo.SegmentContainer
                /\ lo'.SegmentPrefix = lo.SegmentPrefix]_vars

\* AsLargeObject has parsed a static manifest without object-backed segment
OpenedInlineOnly ==
    /\ last.op = "AsLargeObject" /\ last.err = "nil"
    /\ ohdr.static
    /\ lo.Strategy = StaticLargeObject
    /\ \A i \in 1..Len(lo.segments) : lo.segments[i].Object.isnil

\* C13: a view opened from a static manifest without object-backed segment
\* (empty, or inline data only) has no SegmentContainer and an empty
\* SegmentPrefix, and Open on it fails with ErrNoContainerName.
C13_NoInference ==
    [][/\ OpenedInlineOnly' => (lo'.SegmentContainer.isnil /\ lo'.SegmentPrefix = <<>>)
       /\ (OpenedInlineOnly /\ last'.op = "Open") => last'.err = "ErrNoContainerName"]_vars

----------------------------------------------------------------------------
(* Naming the next segment after a given last segment: SpecName            *)

\* what precedes the counter of the last segment's name
NameBases == {<<>>, PSlash, <<"o", "\n">>, <<"x">>, <<"x", "-">>}

\* the counter that ends the last segment's name
NameCounters ==
    {<<>>, <<"0">>, <<"1">>, <<"9">>, <<"0", "9">>, <<"9", "9">>, <<"0", "0", "1">>,
     initialIndex,
     FormatUint(NatSub(MaxUint64, DecOne)),
     FormatUint(MaxUint64),
     FormatUint(Two64),
     <<"0", "0">> \o FormatUint(NatSub(MaxUint64, DecOne)),
     <<"0", "0">> \o FormatUint(MaxUint64)}

Names == {b \o c : b \in NameBases, c \in NameCounters}

\* a static view in SegmentContainer CSeg with an empty SegmentPrefix that
\* holds one segment and was opened with OpenAppend
InitName ==
    /\ \E name \in Names \ {<<>>} :
          /\ lo = [FreshView(Target) EXCEPT !.SegmentContainer = CSeg,
                                            !.segments = <<SegObject(Object(CSeg, name))>>]
          /\ srv = Store(InitialStore, <<A1, CSeg.name, name>>, PlainEntry(XBody))
    /\ ohdr = NoHeaders
    /\ w = TRUE
    /\ last = [Did("Open", "nil", 0) EXCEPT !.mode = OpenAppend]
    /\ crashed = FALSE
    /\ hist = NoHistory
    /\ rs = <<>>
    /\ ops = 0
    /\ bw = NoBuffer
    /\ OtherInit

NextName == \E buf \in Bufs : Write(buf)

SpecName == InitName /\ [][NextName]_vars

----------------------------------------------------------------------------
(* Claims about the name of the next segment (SpecName)                    *)

\* the digits of a counter as a number of any size
CounterValue(c) == StripZeros([i \in 1..Len(c) |-> DigitVal(c[i])])

\* the name that is said to follow s
StatedSuccessor(s) ==
    LET n == TrailingDigits(s)
        c == SubSeq(s, Len(s) - n + 1, Len(s))
    IN  IF n = 0 THEN s \o initialIndex
        ELSE IF DecLess(MaxUint64, NatAdd(CounterValue(c), DecOne))
        THEN s \o <<"-">> \o initialIndex
        ELSE SubSeq(s, 1, Len(s) - n)
               \o FormatUint(PadLeft(NatAdd(CounterValue(c), DecOne), n))

\* the name of the last segment of the sequence
LastName(l) == l.segments[Len(l.segments)].Object.name

\* C14: after a name that ends in digits comes the part before the digits
\* followed by the number plus one, padded with zeros to the width it had
\* (wider only when the number needs it); when the number cannot be
\* incremented within 64 bits the name followed by -0000000000000001; after
\* a name that does not end in a digit the name followed by
\* 0000000000000001.
C14_NextSegmentName ==
    [][(last'.op = "Write" /\ last'.err = "nil") =>
          last'.obj.name = StatedSuccessor(LastName(lo))]_vars

\* the part of a name before its trailing counter, and the counter
NameBase(s) == SubSeq(s, 1, Len(s) - TrailingDigits(s))

NameCounter(s) == SubSeq(s, Len(s) - TrailingDigits(s) + 1, Len(s))

\* s comes before n when the counters are brought to the same width: the
\* parts before the counters in byte order, then the counters as numbers,
\* a name without counter before the same name with one
WidthLess(s, n) ==
    IF NameBase(s) # NameBase(n) THEN StrLess(NameBase(s), NameBase(n))
    ELSE IF NameCounter(s) = <<>> THEN NameCounter(n) # <<>>
    ELSE /\ NameCounter(n) # <<>>
         /\ DecLess(CounterValue(NameCounter(s)), CounterValue(NameCounter(n)))

\* C15: the name NextSegmentObject produces from the name of the previous
\* last segment differs from it and is greater when the two are compared
\* with their trailing counters brought to the same width.
C15_NameIncreases ==
    [][(last'.op = "Write" /\ last'.err = "nil") =>
          /\ last'.obj.name # LastName(lo)
          /\ WidthLess(LastName(lo), last'.obj.name)]_vars

\* a segment was written after one whose counter could not be incremented
C15_Witness ==
    /\ last.op = "Write" /\ last.err = "nil"
    /\ Len(lo.segments) = 2
    /\ NameCounter(lo.segments[1].Object.name) = FormatUint(MaxUint64)
    /\ LastName(lo) = lo.segments[1].Object.name \o <<"-">> \o initialIndex

----------------------------------------------------------------------------
(* Writing through SetSegmentSize: SpecBuf                                 *)

\* the calls made on one writer
BufSteps == 5

SegmentSizes == {2, 3}

BufBytes == {<<"x">>, <<"y", "z">>, <<"d", "x", "y", "z", "d">>}

\* a view of either strategy that Open(OpenTruncate) has opened for writing
InitBuf ==
    /\ \E st \in Strategies :
          lo = [FreshView(Target) EXCEPT !.SegmentContainer = CSeg,
                                         !.SegmentPrefix = PSlash,
                                         !.Strategy = st]
    /\ ohdr = NoHeaders
    /\ w = TRUE
    /\ srv = InitialStore
    /\ last = [Did("Open", "nil", 1) EXCEPT !.mode = OpenTruncate, !.deleted = TRUE]
    /\ crashed = FALSE
    /\ hist = NoHistory
    /\ rs = <<>>
    /\ ops = 0
    /\ bw = NoBuffer
    /\ OtherInit

NextBuf ==
    \/ ops < BufSteps /\ \E segmentSizeBytes \in SegmentSizes : SetSegmentSize(segmentSizeBytes)
    \/ ops < BufSteps /\ \E buf \in BufBytes : BufferedWrite(buf)
    \/ ops < BufSteps /\ BufferedClose
    \/ ops < BufSteps /\ ~bw.on /\ \E buf \in Bufs : Write(buf)

SpecBuf == InitBuf /\ [][NextBuf]_vars

----------------------------------------------------------------------------
(* Claims about the buffered writer (SpecBuf)                              *)

\* the sizes of the segments a step has added to the sequence
NewSizes(before, after) ==
    [i \in 1..(Len(after) - Len(before)) |-> after[Len(before) + i].SizeBytes]

\* C16: through the writer of SetSegmentSize(w, n) every segment a Write
\* creates has exactly n bytes and the one Close creates has between 1 and
\* n bytes, whatever the lengths of the buffers written; without the
\* wrapper each Write creates one segment with the bytes of that call.
C16_SegmentSizes ==
    [][/\ last'.op = "BufferedWrite" =>
             \A i \in 1..(Len(lo'.segments) - Len(lo.segments)) :
                NewSizes(lo.segments, lo'.segments)[i] = bw.size
       /\ last'.op = "BufferedClose" =>
             \A i \in 1..(Len(lo'.segments) - Len(lo.segments)) :
                /\ NewSizes(lo.segments, lo'.segments)[i] >= 1
                /\ NewSizes(lo.segments, lo'.segments)[i] <= bw.size
       /\ (last'.op = "Write" /\ last'.err = "nil") =>
             /\ lo'.segments = Append(lo.segments, Written(last'.obj, last'.buf))
             /\ srv'[Key(last'.obj)] = PlainEntry(last'.buf)]_vars

\* the bytes of the segments of l from position from on, read from store s
BytesFrom(s, l, from) ==
    Concat([i \in 1..(Len(l.segments) - from + 1) |->
               SegmentBytes(s, l.segments[from + i - 1])])

----------------------------------------------------------------------------
(* Claims about the dynamic manifest, Open and AsLargeObject               *)

\* the value of X-Object-Manifest for view l
ManifestValue(l) == l.SegmentContainer.name \o <<"/">> \o l.SegmentPrefix

\* the X-Object-Manifest the headers of the target report: the cached
\* headers, else those of the server, empty for an object that is not found
ReportedManifest(l, s, h) ==
    IF h.cached THEN h.manifest
    ELSE IF Exists(s, Key(l.Object)) THEN HeadOf(s, Key(l.Object)).manifest
    ELSE <<>>

\* one WriteManifest on a dynamic view: no PUT when the headers report the
\* manifest already, else one PUT of an empty body with the header, unless
\* the header lookup failed, which is returned without a PUT
DynamicManifestStep ==
    (last'.op = "WriteManifest" /\ lo.Strategy = DynamicLargeObject
        /\ ~lo.SegmentContainer.isnil) =>
       LET lookupFailed == ~ohdr.cached /\ last'.err # "nil" /\ last'.nput = 0
       IN  IF lookupFailed THEN srv' = srv
           ELSE IF ReportedManifest(lo, srv, ohdr) = ManifestValue(lo)
           THEN last'.nput = 0 /\ last'.err = "nil" /\ srv' = srv
           ELSE /\ last'.nput = 1
                /\ IF last'.err = "nil"
                   THEN srv' = Store(srv, Key(lo.Object), DloEntry(ManifestValue(lo)))
                   ELSE srv' = srv

\* WriteManifest follows a WriteManifest on the same dynamic view
SecondManifest ==
    /\ last.op = "WriteManifest" /\ last'.op = "WriteManifest"
    /\ lo.Strategy = DynamicLargeObject /\ ~lo.SegmentContainer.isnil

C19_OpenErrors ==
    [][last'.op = "Open" =>
          /\ lo.SegmentContainer.isnil => last'.err = "ErrNoContainerName"
          /\ (~lo.SegmentContainer.isnil /\ lo.SegmentContainer.a # lo.Object.c.a) =>
                last'.err = "ErrAccountMismatch"
          /\ last'.err \in {"ErrNoContainerName", "ErrAccountMismatch"} =>
                /\ w' = w
                /\ last'.nreq = 0 /\ ~last'.deleted
                /\ srv' = srv
                /\ lo' = lo]_vars

\* Open(OpenTruncate) was refused on a view that holds a segment stored in
\* the other account
C19_Witness ==
    /\ last.op = "Open" /\ last.err = "ErrAccountMismatch"
    /\ last.mode = OpenTruncate
    /\ ~w
    /\ Len(lo.segments) > 0
    /\ Exists(srv, Key(lo.segments[1].Object))

\* C20: AsLargeObject on an object that does not exist returns an empty
\* view with the static strategy, no SegmentContainer and an empty
\* SegmentPrefix; on an existing object that is neither a static nor a
\* dynamic large object it fails with ErrNotLarge and returns no view; any
\* other error of the existence check is returned as it is.
C20_AsLargeObjectCases ==
    [][last'.op = "AsLargeObject" =>
          LET k == Key(Target)
              lookupFailed == ~ohdr.cached /\ last'.err \in BackendErrors
          IN  /\ lookupFailed => (lo' = lo /\ last'.nreq = 1)
              /\ (~lookupFailed /\ ~ohdr.cached /\ ~Exists(srv, k)) =>
                    /\ last'.err = "nil"
                    /\ lo'.Object = Target
                    /\ lo'.Strategy = StaticLargeObject
                    /\ lo'.SegmentContainer.isnil
                    /\ lo'.SegmentPrefix = <<>>
                    /\ lo'.segments = <<>>
              /\ (~lookupFailed /\ ~ohdr.cached /\ Exists(srv, k) /\ srv[k].kind = "plain") =>
                    /\ last'.err = "ErrNotLarge"
                    /\ lo' = lo]_vars

\* AsLargeObject has refused an object that is no large object, and the
\* caller holds no view
C20_Witness ==
    /\ last.op = "AsLargeObject" /\ last.err = "ErrNotLarge"
    /\ lo = NoView
    /\ Exists(srv, Key(Target)) /\ srv[Key(Target)].kind = "plain"

----------------------------------------------------------------------------
(* Handles and their cached headers: SpecCache                             *)

\* the calls made on the three handles
CacheSteps == 4

\* how a request can end before the server has answered it properly
Faults == {"nil"} \cup BackendErrors

\* no handle has looked at its resource yet; the container and the object
\* may exist already, and a resource may carry a malformed typed header
InitCache ==
    /\ lo = NoView
    /\ ohdr = NoHeaders
    /\ w = FALSE
    /\ srv = InitialStore
    /\ last = LastZero
    /\ crashed = FALSE
    /\ hist = NoHistory
    /\ rs = <<>>
    /\ ops = 0
    /\ bw = NoBuffer
    /\ cache = [h \in Handles |-> NilHeaders]
    /\ net = NoCall
    /\ pipe = NoUpload
    /\ \E ce \in BOOLEAN, oe \in BOOLEAN, valid \in [Handles -> BOOLEAN] :
          /\ oe => ce
          /\ remote = [h \in Handles |->
                         [exists |-> CASE h = "Account" -> TRUE
                                       [] h = "Container" -> ce
                                       [] h = "Object" -> oe,
                          rev |-> 0, valid |-> valid[h]]]

NextCache ==
    \/ ops < CacheSteps /\ \E fault \in Faults : Account_Headers(fault)
    \/ ops < CacheSteps /\ \E fault \in Faults, valid \in BOOLEAN : Account_Update(fault, valid)
    \/ ops < CacheSteps /\ \E fault \in Faults : Account_Create(fault)
    \/ ops < CacheSteps /\ \E fault \in Faults : Container_Exists(fault)
    \/ ops < CacheSteps /\ \E fault \in Faults : Container_Headers(fault)
    \/ ops < CacheSteps /\ \E fault \in Faults, valid \in BOOLEAN : Container_Update(fault, valid)
    \/ ops < CacheSteps /\ \E fault \in Faults : Container_Create(fault)
    \/ ops < CacheSteps /\ \E fault \in Faults : Container_Delete(fault)
    \/ ops < CacheSteps /\ \E fault \in Faults : Container_EnsureExists(fault)
    \/ ops < CacheSteps /\ \E fault \in Faults : Object_Exists(fault)
    \/ ops < CacheSteps /\ \E fault \in Faults : Object_Headers(fault)
    \/ ops < CacheSteps /\ \E fault \in Faults, valid \in BOOLEAN : Object_Update(fault, valid)
    \/ ops < CacheSteps /\ \E fault \in Faults, streamed \in BOOLEAN, differs \in BOOLEAN :
          Object_Upload(fault, streamed, differs)
    \/ ops < CacheSteps /\ \E fault \in Faults : Object_Delete(fault)

SpecCache == InitCache /\ [][NextCache]_vars

----------------------------------------------------------------------------
(* Claims about the cached headers (SpecCache)                             *)

\* the handle a call was made on
HandleOf(op) ==
    CASE op \in {"Account.Headers", "Account.Update", "Account.Create"} -> "Account"
      [] op \in {"Container.Exists", "Container.Headers", "Container.Update",
                 "Container.Create", "Container.Delete", "Container.EnsureExists"} ->
            "Container"
      [] OTHER -> "Object"

WriteOps ==
    {"Account.Update", "Account.Create", "Container.Update", "Container.Create",
     "Container.Delete", "Container.EnsureExists", "Object.Update", "Object.Upload",
     "Object.Delete"}

ReadOps ==
    {"Account.Headers", "Container.Exists", "Container.Headers", "Object.Exists",
     "Object.Headers"}

\* C21: after a successful POST, PUT or DELETE through a handle the cached
\* headers of that handle are cleared, so that the next Headers() or
\* Exists() asks the server; after a successful Object.Delete, Exists() on
\* the same handle does not answer from headers cached before.
C21_WriteInvalidates ==
    [][/\ (last'.op \in WriteOps /\ last'.err = "nil") => cache'[HandleOf(last'.op)].isnil
       /\ (last.op = "Object.Delete" /\ last.err = "nil" /\ last'.op = "Object.Exists") =>
             last'.nreq = 1]_vars

\* C22: a write through a handle that returns an error leaves the cached
\* headers of the handle as they were, also when Object.Upload returns
\* ErrChecksumMismatch for a streamed body.
C22_FailedWriteKeepsCache ==
    [][(last'.op \in WriteOps /\ last'.err # "nil") =>
          cache'[HandleOf(last'.op)] = cache[HandleOf(last'.op)]]_vars

\* C23: Headers() sends a HEAD only when nothing is cached and otherwise
\* returns the cached headers without a request; headers are stored only
\* when the HEAD succeeded and every typed header was well formed; on a
\* malformed header the parsed headers come back with the error and nothing
\* is stored; when the HEAD fails nothing is stored, so that Exists() is
\* false now and true once the resource was created through the handle.
C23_HeadersCaching ==
    [][last'.op \in ReadOps =>
          LET h == HandleOf(last'.op)
          IN  /\ ~cache[h].isnil =>
                    /\ last'.nreq = 0 /\ last'.err = "nil" /\ cache'[h] = cache[h]
                    /\ last'.op \notin {"Container.Exists", "Object.Exists"} =>
                          last'.ret = ParsedHeaders(cache[h].rev)
              /\ cache[h].isnil =>
                    /\ last'.nreq = 1
                    /\ ~cache'[h].isnil <=>
                          (last'.err = "nil" /\ Present(remote, h) /\ remote[h].valid)
                    /\ ~cache'[h].isnil => cache'[h] = PtrHeaders(remote[h].rev)
                    /\ last'.err = "MalformedHeaderError" =>
                          (last'.op \notin {"Container.Exists", "Object.Exists"} =>
                              last'.ret = ParsedHeaders(remote[h].rev))
                    /\ (last'.op \in {"Container.Exists", "Object.Exists"}
                          /\ last'.err = "nil") => (last'.exists <=> Present(remote, h))]_vars

----------------------------------------------------------------------------
(* Calls of Do on the backend: SpecDo                                      *)

InitDo ==
    /\ lo = NoView
    /\ ohdr = NoHeaders
    /\ w = FALSE
    /\ srv = InitialStore
    /\ last = LastZero
    /\ crashed = FALSE
    /\ hist = NoHistory
    /\ rs = <<>>
    /\ ops = 0
    /\ bw = NoBuffer
    /\ OtherInit

NextDo ==
    \/ Do
    \/ \E status \in Statuses : Send(status)
    \/ \E ok \in BOOLEAN : Drain(ok)
    \/ \E ok \in BOOLEAN : Reauthenticate(ok)

SpecDo == InitDo /\ [][NextDo]_vars

\* C24: for one call of Do the request is sent at most twice; it is sent a
\* second time only when the first response was a 401 and the
\* re-authentication succeeded, the second attempt carries the renewed
\* token, and its response is returned whatever its status; when draining
\* the first response or re-authenticating fails, that error is returned
\* after one attempt; any other response is returned after one attempt.
C24_RetryOnce ==
    /\ Len(net.sent) <= 2
    /\ Len(net.sent) = 2 =>
          /\ net.sent[1].status = StatusUnauthorized
          /\ net.afterReauth
          /\ net.sent[2].token = net.token /\ net.sent[2].token # net.sent[1].token
          /\ net.pc = "done"
          /\ net.sent[2].status # 0 => (net.resp = net.sent[2].status /\ net.err = "nil")
    /\ (net.pc = "done" /\ net.err \in {"DrainError", "ReauthError"}) =>
          (Len(net.sent) = 1 /\ net.resp = 0)
    /\ (net.pc = "done" /\ Len(net.sent) = 1 /\ net.sent[1].status \notin {0, StatusUnauthorized}) =>
          (net.resp = net.sent[1].status /\ net.err = "nil")

\* a second 401, after a renewed token, has been returned to the caller
C24_Witness ==
    /\ net.pc = "done" /\ Len(net.sent) = 2
    /\ net.resp = StatusUnauthorized /\ net.err = "nil"
    /\ net.sent[2].token = net.sent[1].token + 1

----------------------------------------------------------------------------
(* One writer session on an object that may exist already: SpecSession     *)

\* the calls made on the view
SessionSteps == 4

\* the segments the caller adds by hand between two Writes
SessionSegments == {SegObject(S1), SegObject(S2)}

NextSession ==
    \/ ops < SessionSteps /\ AsLargeObject
    \/ ops < SessionSteps /\ \E mode \in OpenModes : Open(mode)
    \/ ops < SessionSteps /\ \E buf \in Bufs : Write(buf)
    \/ ops < SessionSteps /\ \E segment \in SessionSegments : AddSegment(segment)

SpecSession == InitOpen /\ [][NextSession]_vars

\* C25: within a writer session NextSegmentObject never returns an object
\* that a segment of the current sequence references, so that no Write
\* overwrites a segment the view still references; this for every sequence
\* AsLargeObject can return and every AddSegment in between.
C25_FreshSegmentName ==
    (w /\ HasView /\ ~crashed /\ ~lo.SegmentContainer.isnil /\ ~NextSegmentPanics(lo)) =>
        NextSegmentObject(lo) \notin Referenced(lo.segments)

----------------------------------------------------------------------------
(* Claims about Write and its upload (Spec)                                *)

\* C26: Write appends the segment only after its upload has succeeded, and
\* the next Write starts after that; when the upload fails Write returns
\* (0, error) and leaves the sequence as it was, so that no segment of the
\* sequence comes from a failed upload.
C26_AppendAfterUpload ==
    [][last'.op = "Write" =>
          /\ (last'.nreq = 1 /\ last'.n = 0) =>
                (last'.err # "nil" /\ lo' = lo /\ srv' = srv)
          /\ lo'.segments # lo.segments =>
                /\ last'.n = Len(last'.buf)
                /\ lo'.segments = Append(lo.segments, last'.seg)
                /\ last'.seg.Object = last'.obj
                /\ Exists(srv', Key(last'.obj))
                /\ srv'[Key(last'.obj)] = PlainEntry(last'.buf)
          /\ last'.err = "nil" => lo'.segments # lo.segments]_vars

\* a Write whose upload failed, on a view that holds a segment from the
\* Write before it
C26_Witness ==
    /\ last.op = "Write" /\ last.err = "error" /\ last.n = 0 /\ last.nreq = 1
    /\ Len(lo.segments) = 1 /\ last.obj \notin Referenced(lo.segments)

----------------------------------------------------------------------------
(* One record of a manifest through the loop of asSLO: SpecParse           *)

\* the numbers on either side of the dash; the empty string leaves one out
RangeNumbers ==
    {Dec(0), Dec(1), Dec(2), Dec(5), MaxInt64, MinInt64Abs, MaxUint64, Two64}

RangeSides == {<<>>} \cup {FormatUint(n) : n \in RangeNumbers}

\* M-N, -N, M-, - and two strings that are no range
RangeStrings ==
    {m \o <<"-">> \o n : m \in RangeSides, n \in RangeSides}
        \cup {<<"5">>, <<"x", "-", "1">>}

\* the records of a manifest: a segment object with a range, or inline data
ParseRecords ==
    {[RenderSegment(SegObject(X1)) EXCEPT !.Range = r] : r \in RangeStrings}
        \cup {RenderSegment(SegData(<<"d">>))}

InitParse ==
    /\ lo = StaticView
    /\ ohdr = NoHeaders
    /\ w = FALSE
    /\ srv = InitialStore
    /\ last = LastZero
    /\ crashed = FALSE
    /\ hist = NoHistory
    /\ ops = 0
    /\ bw = NoBuffer
    /\ OtherInit
    /\ \E record \in ParseRecords : rs = [NoRecord EXCEPT !.stage = "record", !.record = record]

\* the body of the loop of asSLO reads the record
ReadRecord ==
    /\ rs.stage = "record"
    /\ \E r \in {ParseRecord(A1, rs.record)} :
          rs' = [rs EXCEPT !.stage = "read",
                           !.seg = r.seg,
                           !.err = IF r.ok THEN "nil" ELSE "error",
                           !.parsed = parseHTTPRange(rs.record.Range)]
    /\ UNCHANGED <<lo, ohdr, w, srv, last, crashed, hist, ops, bw, otherVars>>

NextParse == ReadRecord

SpecParse == InitParse /\ [][NextParse]_vars

\* C27: every segment AsLargeObject puts into the sequence of a static view
\* is one that AddSegment accepts for the static strategy: inline data with
\* no other field, or an object with a range that is not (offset < 0,
\* length 0); this for every range the parser accepts, -0 included.
C27_ParsedSegmentsValid ==
    (rs.stage = "read" /\ rs.err = "nil") =>
        /\ AddSegmentError(StaticView, rs.seg) = "nil"
        /\ ~(rs.seg.RangeLength = DecZero /\ IsNegative(rs.seg.RangeOffset))

\* the two numbers of a range M-N, when it has that form
RangeEnds(str) ==
    LET fields == SplitN2(str, "-")
    IN  IF Len(fields) = 2
        THEN [first |-> ParseUint(fields[1], MaxInt64), last |-> ParseUint(fields[2], MaxUint64)]
        ELSE [first |-> ParseUint(<<>>, MaxInt64), last |-> ParseUint(<<>>, MaxUint64)]

\* C28: for M-N with 0 <= M <= N < 2^64 and M < 2^63 parseHTTPRange returns
\* the offset M and the length N - M + 1 as a number, which is at least 1;
\* it rejects M-N with N < M.
C28_RangeLength ==
    LET e == RangeEnds(rs.record.Range)
    IN  (rs.stage = "read" /\ e.first.ok /\ e.last.ok) =>
            IF DecLeq(e.first.val, e.last.val)
            THEN /\ rs.parsed.ok
                 /\ rs.parsed.offsetVal = Int64(FALSE, e.first.val)
                 /\ rs.parsed.lengthVal = NatAdd(NatSub(e.last.val, e.first.val), DecOne)
                 /\ rs.parsed.lengthVal # DecZero
            ELSE ~rs.parsed.ok

----------------------------------------------------------------------------
(* A claim about AddSegment on a view without SegmentContainer (Spec)      *)

\* C30: AddSegment with an object-backed segment on a freshly declared view
\* whose SegmentContainer was never set returns an error and leaves the
\* sequence as it was; it does not crash on the unset container, with
\* either strategy.
C30_AddSegmentUnsetContainer ==
    [][(/\ last'.op = "AddSegment"
        /\ lo.SegmentContainer.isnil
        /\ Len(last'.seg.Data) = 0 /\ ~last'.seg.Object.isnil) =>
          /\ last'.err \notin {"nil", "panic"}
          /\ ~crashed'
          /\ lo' = lo]_vars

----------------------------------------------------------------------------
(* One call of UploadWithWriter: SpecUpload                                *)

InitUpload == InitDo

\* the steps a goroutine takes whenever it can; that Upload returns before
\* the content has ended is left to the server
CallerStep ==
    \/ CallbackWrite
    \/ WriteFails
    \/ \E e \in CallbackResults(pipe) : CallbackReturns(e)
    \/ CloseWriter

GoroutineStep ==
    \/ UploadReads
    \/ \E e \in UploadResults : UploadEnds(e)
    \/ CloseReader
    \/ ErrChan

NextUpload ==
    \/ CallerStep
    \/ GoroutineStep
    \/ \E e \in UploadResults : UploadEndsEarly(e)

\* every goroutine that can run does run in the end
SpecUpload ==
    InitUpload /\ [][NextUpload]_vars /\ WF_vars(CallerStep) /\ WF_vars(GoroutineStep)

\* C29: UploadWithWriter always returns, whether the callback ends well,
\* returns an error part-way, or Upload ends before the callback has
\* written everything; neither goroutine stays blocked on the pipe or on
\* errChan, and what is returned is the result of Upload.
C29_UploadWithWriterReturns ==
    /\ <>[](pipe.caller = "returned" /\ pipe.goroutine = "exit")
    /\ [](pipe.caller = "returned" => (pipe.ret = pipe.err /\ pipe.ret \in UploadResults))

\* the call has returned the error of an Upload that ended while the
\* callback was in a Write, after one Write had been read
C29_Witness ==
    /\ pipe.caller = "returned" /\ pipe.goroutine = "exit"
    /\ pipe.ret = "UnexpectedStatusCodeError"
    /\ pipe.seen = "UnexpectedStatusCodeError" /\ pipe.read = 1 /\ pipe.left = 0

=============================================================================
